---- MODULE Spec2Model ----
(***************************************************************************)
(* Turn-based combat engine of Adventure Quest (combat_system.py) together *)
(* with the Player operations it calls back into (player_module.py).       *)
(* One Combat object is modelled; every public method is one action.       *)
(***************************************************************************)
EXTENDS Integers, Sequences, FiniteSets, TLC

(* ---------------------------------------------------------------- bounds *)
\* combat_log grows with every resolved turn; calls that would append to a
\* log of this length are not taken.
MaxLog == 5
\* gold grows with every reward grant; an action that would lift a player's
\* gold above this is not taken.
MaxGold == 2
\* start_combat is called at most this often on the Combat object
MaxStarts == 2
\* take_damage on its own: the raw amounts and the defender's health drawn
MaxAmount == 4
MaxDrawnHealth == 3
\* the clock of the registry advances at most to this second
MaxTime == 1
\* the caller of the registry lets every Combat resolve at most this many turns
MaxRegistryTurns == 2

(* ------------------------------------------------------ program constants *)
D20 == 20
PlayerSpeed == 5
BaseFleePercent == 50
FleePercentPerLevel == 5

(* ------------------------------------------------------------ combatants *)
PlayerIds == {"p1", "p2"}
EnemyIds == {"e1", "e2"}

\* The parties an encounter is created with (Combat.add_player/add_enemy
\* before start_combat), as <<players, enemies>>.
Encounters ==
    { << <<"p1">>, <<"e1">> >>,
      << <<"p1", "p2">>, <<"e1">> >>,
      << <<"p1">>, <<"e1", "e2">> >>,
      << <<>>, <<"e1">> >>,
      << <<"p1">>, <<>> >> }

\* the parties create_combat is called with: two that share the player, two
\* that share the enemy, two that share nothing, one without players
RegistryParties ==
    { << <<"p1">>, <<"e1">> >>,
      << <<"p1">>, <<"e2">> >>,
      << <<"p2">>, <<"e2">> >>,
      << <<>>, <<"e1">> >> }

player_class(p) == IF p = "p1" THEN "Warrior" ELSE "Mage"

None == "None"

Range(s) == {s[i] : i \in DOMAIN s}

Min(a, b) == IF a < b THEN a ELSE b

\* int(x) of a non-negative rational num/den
IntDiv(num, den) == num \div den

(* ---------------------------------------------------------------- Player *)
\* Player._get_class_skills: name -> [mana_cost, damage_multiplier (percent),
\* level_requirement]; class skills are available from their level on.
AllSkills(cls) ==
    IF cls = "Warrior" THEN
        [n \in {"Basic Attack", "Heroic Strike", "Whirlwind", "Shield Block"} |->
            CASE n = "Basic Attack" -> [mana_cost |-> 0, damage_multiplier |-> 100, level_requirement |-> 1]
              [] n = "Heroic Strike" -> [mana_cost |-> 10, damage_multiplier |-> 150, level_requirement |-> 2]
              [] n = "Whirlwind" -> [mana_cost |-> 15, damage_multiplier |-> 120, level_requirement |-> 4]
              [] n = "Shield Block" -> [mana_cost |-> 10, damage_multiplier |-> 0, level_requirement |-> 3]]
    ELSE
        [n \in {"Basic Attack", "Fireball", "Frost Nova", "Arcane Missiles"} |->
            CASE n = "Basic Attack" -> [mana_cost |-> 0, damage_multiplier |-> 100, level_requirement |-> 1]
              [] n = "Fireball" -> [mana_cost |-> 15, damage_multiplier |-> 170, level_requirement |-> 2]
              [] n = "Frost Nova" -> [mana_cost |-> 20, damage_multiplier |-> 130, level_requirement |-> 3]
              [] n = "Arcane Missiles" -> [mana_cost |-> 25, damage_multiplier |-> 200, level_requirement |-> 5]]

\* the names in player.skills of a player of class cls at this level
SkillNames(cls, level) ==
    {n \in DOMAIN AllSkills(cls) :
        n = "Basic Attack" \/ level >= AllSkills(cls)[n].level_requirement}

\* The players entering the encounter: defense as Player.__init__ and
\* _apply_class_bonuses set it, level 1 without experience or gold; health,
\* attack and mana are scaled down (they are plain fields, Player.from_dict
\* sets them from stored data) so that a few hits decide a fight and a
\* Warrior who has just reached level 2 cannot pay for Heroic Strike.
NewPlayer(p) ==
    [health |-> 2, max_health |-> 2,
     mana |-> IF player_class(p) = "Warrior" THEN 4 ELSE 10,
     max_mana |-> IF player_class(p) = "Warrior" THEN 4 ELSE 10,
     attack |-> 3,
     defense |-> IF player_class(p) = "Warrior" THEN 8 ELSE 4,
     level |-> 1, experience |-> 0, gold |-> 0, inventory |-> <<>>]

\* Player.level_up
level_up(p, r) ==
    LET cls == player_class(p)
        mh == r.max_health + (IF cls = "Warrior" THEN 15 ELSE 8)
        mm == r.max_mana + (IF cls = "Warrior" THEN 5 ELSE 15)
    IN [r EXCEPT !.level = r.level + 1,
                 !.max_health = mh,
                 !.attack = r.attack + (IF cls = "Warrior" THEN 3 ELSE 2),
                 !.defense = r.defense + (IF cls = "Warrior" THEN 2 ELSE 1),
                 !.max_mana = mm,
                 !.health = mh,
                 !.mana = mm]

\* Player.gain_experience
gain_experience(p, r, amount) ==
    LET r1 == [r EXCEPT !.experience = r.experience + amount]
    IN IF r1.experience >= r1.level * 100 THEN level_up(p, r1) ELSE r1

\* The pairs <<amount, defense>> for which the double amount * (100 / (100 +
\* defense)) lies just below the exact quotient, an integer (97 * (100 / 194)
\* is 49.99999999999999): int() then gives one less than the quotient. The
\* table is complete for amounts up to 200 with defenses up to 101, 1000 and
\* 1001; for every other such pair the double truncates to the exact floor.
FloatShortfall ==
    { <<97, 94>>, <<117, 95>>, <<145, 16>>, <<155, 24>>, <<161, 61>>,
      <<167, 67>>, <<193, 93>>, <<194, 94>>, <<195, 95>>, <<199, 99>> }

\* defense_multiplier = 100 / (100 + self.defense);
\* int(amount * defense_multiplier)
reduced_by_defense(amount, defense) ==
    IF <<amount, defense>> \in FloatShortfall
    THEN IntDiv(amount * 100, 100 + defense) - 1
    ELSE IntDiv(amount * 100, 100 + defense)

\* the damage without "Ensure minimum damage of 1"
actual_damage_no_minimum(amount, defense) == reduced_by_defense(amount, defense)

\* the damage both take_damage methods subtract: int(amount * defense_multiplier),
\* at least 1
actual_damage(amount, defense) ==
    LET d == reduced_by_defense(amount, defense)
    IN IF d < 1 THEN 1 ELSE d

\* take_damage without "Ensure health doesn't go below 0"
take_damage_unclamped(health, defense, amount) ==
    health - actual_damage(amount, defense)

\* health after take_damage(amount)
take_damage(health, defense, amount) ==
    LET h == health - actual_damage(amount, defense)
    IN IF h < 0 THEN 0 ELSE h

\* a use_mana that takes nothing
use_mana_keeps_mana(r, amount) == r

\* Player.use_mana
use_mana(r, amount) ==
    IF r.mana >= amount THEN [r EXCEPT !.mana = r.mana - amount] ELSE r

\* int(attack * random.uniform(0.8, 1.2))
VariedDamage(attack) == IntDiv(attack * 8, 10) .. IntDiv(attack * 12, 10)

(* ----------------------------------------------------------------- Enemy *)
\* The enemies entering the encounter: level 1 with the defense of
\* Enemy.__init__; health and attack scaled down like the players'
\* (Enemy.from_dict sets every field from stored data).
NewEnemy(e) ==
    [health |-> 2, max_health |-> 2, attack |-> 3, defense |-> 3, level |-> 1]

\* Enemy.experience_reward and gold_reward: plain fields; two grants of this
\* experience take a level 1 player to the level-up threshold (level * 100)
experience_reward(e) == 50
gold_reward(e) == 1

\* Enemy.abilities: name -> [type, multiplier (percent)], as add_ability fills
\* it: one ability of each type on e1, none on e2. The heal's multiplier is
\* scaled with max_health so that it restores a point.
abilities(e) ==
    IF e = "e1"
    THEN [n \in {"Regenerate", "Sneak Attack", "Disarm"} |->
            CASE n = "Regenerate" -> [type |-> "heal", multiplier |-> 50]
              [] n = "Sneak Attack" -> [type |-> "damage", multiplier |-> 150]
              [] n = "Disarm" -> [type |-> "stun", multiplier |-> 0]]
    ELSE [n \in {} |-> [type |-> "damage", multiplier |-> 0]]

\* Enemy.possible_drops as a sequence of [item, chance (percent)], and
\* item_drop_chance (percent)
possible_drops(e) ==
    IF e = "e1" THEN << [item |-> "Wolf Pelt", chance |-> 70] >>
    ELSE << [item |-> "Bone", chance |-> 100], [item |-> "Rusty Sword", chance |-> 50] >>

\* e1 keeps the item_drop_chance of Enemy.__init__; e2 is an enemy whose
\* chance is 0, so that its table is never reached
item_drop_chance(e) == IF e = "e1" THEN 30 ELSE 0

(* ----------------------------------------------------------------- state *)
VARIABLES
    players,           \* Combat.players: sequence of player ids
    enemies,           \* Combat.enemies: sequence of enemy ids
    player,            \* the Player objects: id -> fields
    enemy,             \* the Enemy objects: id -> fields
    initiative_order,  \* Combat.initiative_order: sequence of [type, entity]
    turn_order,        \* Combat.turn_order
    current_turn,      \* Combat.current_turn (0-based index into turn_order)
    round_number,      \* Combat.round_number
    is_active,         \* Combat.is_active
    combat_log,        \* Combat.combat_log: the kind of each entry
    ret,               \* what the last call returned: [over, msg]
    starts,            \* how often the caller has started the encounter
    other_combats,     \* CombatSystem.active_combats but for the Combat above:
                       \* combat id -> the fields of that Combat
    focus,             \* the id under which the registry holds the Combat
                       \* above, NoFocus if it does not hold it
    now,               \* int(time.time())
    manager_players,   \* PlayerManager.players: the dict as the sequence of its
                       \* items [name, player], in insertion order
    save_file,         \* the content of PlayerManager.save_file
    encounter_templates, \* CombatSystem.encounter_templates: name ->
                       \* [enemies, min_level]
    callers            \* the calls into the Combat that are under way: per
                       \* caller the statement it has reached and its local
                       \* "current"; and the turn slots resolved so far

vars == <<players, enemies, player, enemy, initiative_order, turn_order,
          current_turn, round_number, is_active, combat_log, ret, starts,
          other_combats, focus, now, manager_players, save_file,
          encounter_templates, callers>>

\* the CombatSystem
registry == <<other_combats, focus, now, encounter_templates, callers>>

\* the PlayerManager and its file
persistence == <<manager_players, save_file>>

NoFocus == -1
NoCombats == [id \in {} |-> None]
\* no call into the Combat is under way: every method runs to completion
CallerIds == {"c1", "c2"}
NoEntry == [type |-> "none", entity |-> "none"]
NoCallers ==
    [serialized |-> TRUE,
     pc |-> [c \in CallerIds |-> "idle"],
     call |-> [c \in CallerIds |-> None],
     current |-> [c \in CallerIds |-> NoEntry],
     slot |-> [c \in CallerIds |-> <<0, 0>>],
     resolved |-> {},
     advanced |-> {},
     twice |-> FALSE]
\* CombatSystem.__init__: self.encounter_templates = {}
NoTemplates == [name \in {} |-> None]
\* os.path.exists(save_file) is false
NoFile == [state |-> "absent", items |-> <<>>]

\* everything of the encounter and its combatants, the return value apart
encounter == <<players, enemies, player, enemy, initiative_order, turn_order,
               current_turn, round_number, is_active, combat_log>>

is_alive(r) == r.health > 0

\* Combat.__init__ followed by add_player/add_enemy for one of the parties
Init ==
    /\ \E enc \in Encounters : players = enc[1] /\ enemies = enc[2]
    /\ player = [p \in PlayerIds |-> NewPlayer(p)]
    /\ enemy = [e \in EnemyIds |-> NewEnemy(e)]
    /\ initiative_order = <<>>
    /\ turn_order = <<>>
    /\ current_turn = 0
    /\ round_number = 1
    /\ is_active = FALSE
    /\ combat_log = <<>>
    /\ ret = [over |-> FALSE, msg |-> None]
    /\ starts = 0
    /\ other_combats = NoCombats
    /\ focus = NoFocus
    /\ now = 0
    /\ manager_players = <<>>
    /\ save_file = NoFile
    /\ encounter_templates = NoTemplates
    /\ callers = NoCallers

(* ------------------------------------------------------------ initiative *)
\* all_combatants before the sort: the players in list order, then the enemies
AllCombatants(ps, es) ==
    [i \in 1..(Len(ps) + Len(es)) |->
        IF i <= Len(ps) THEN [type |-> "player", entity |-> ps[i]]
        ELSE [type |-> "enemy", entity |-> es[i - Len(ps)]]]

\* a descending sort that puts the later of two equal scores first
SortByInitiative_ties_reversed(all, score) ==
    LET n == Len(all)
        Before(j, i) == score[j] > score[i] \/ (score[j] = score[i] /\ j > i)
        rank(i) == Cardinality({j \in 1..n : Before(j, i)}) + 1
    IN [k \in 1..n |-> all[CHOOSE i \in 1..n : rank(i) = k]]

\* all_combatants.sort(key=initiative, reverse=True): descending and stable.
\* score[i] is the initiative of all_combatants[i].
SortByInitiative(all, score) ==
    LET n == Len(all)
        Before(j, i) == score[j] > score[i] \/ (score[j] = score[i] /\ j < i)
        rank(i) == Cardinality({j \in 1..n : Before(j, i)}) + 1
    IN [k \in 1..n |-> all[CHOOSE i \in 1..n : rank(i) = k]]

\* the orders start_combat can produce for a party: one d20 per combatant,
\* plus speed for a player
StartOrders ==
    [enc \in Encounters \cup RegistryParties |->
        LET all == AllCombatants(enc[1], enc[2])
            n == Len(all)
        IN { SortByInitiative(all,
                [i \in 1..n |-> roll[i] + (IF all[i].type = "player" THEN PlayerSpeed ELSE 0)])
             : roll \in [1..n -> 1..D20] }]

(* ---------------------------------------------------------------- Combat *)
\* a check_combat_end that leaves out "or not self.is_active"
check_combat_end_ignores_flag(pl, en, active) ==
    LET players_alive == \E i \in DOMAIN players : is_alive(pl[players[i]])
        enemies_alive == \E i \in DOMAIN enemies : is_alive(en[enemies[i]])
    IN ~(players_alive /\ enemies_alive)

\* Combat.check_combat_end on the given objects
check_combat_end(pl, en, active) ==
    LET players_alive == \E i \in DOMAIN players : is_alive(pl[players[i]])
        enemies_alive == \E i \in DOMAIN enemies : is_alive(en[enemies[i]])
    IN ~(players_alive /\ enemies_alive) \/ ~active

\* a rebuild that walks the party lists instead of the initiative order
rebuild_turn_order_from_lists(pl, en) ==
    LET Alive(c) == IF c.type = "player" THEN is_alive(pl[c.entity])
                    ELSE is_alive(en[c.entity])
    IN SelectSeq(AllCombatants(players, enemies), Alive)

\* Combat.rebuild_turn_order: the living entries of the initiative order
rebuild_turn_order(pl, en) ==
    LET Alive(c) == IF c.type = "player" THEN is_alive(pl[c.entity])
                    ELSE is_alive(en[c.entity])
    IN SelectSeq(initiative_order, Alive)

\* Combat.start_combat
start_combat ==
    IF players = <<>> \/ enemies = <<>>
    THEN /\ ret' = [over |-> FALSE,
                    msg |-> "Cannot start combat without both players and enemies."]
         /\ UNCHANGED <<encounter, starts>>
    ELSE \E order \in StartOrders[<<players, enemies>>] :
         /\ starts < MaxStarts
         /\ starts' = starts + 1
         /\ is_active' = TRUE
         /\ round_number' = 1
         /\ initiative_order' = order
         /\ turn_order' = order
         /\ current_turn' = 0
         /\ combat_log' = <<"start">>
         /\ ret' = [over |-> FALSE, msg |-> "Combat has begun!"]
         /\ UNCHANGED <<players, enemies, player, enemy>>

\* the outcome end_combat reports
Outcome(pl) ==
    IF \E i \in DOMAIN players : is_alive(pl[players[i]]) THEN "Victory!" ELSE "Defeat!"

\* an end_combat without its "if not self.is_active" check
end_combat_unguarded ==
    /\ Len(combat_log) < MaxLog
    /\ is_active' = FALSE
    /\ combat_log' = Append(combat_log, "end")
    /\ ret' = [over |-> TRUE, msg |-> Outcome(player)]
    /\ UNCHANGED <<players, enemies, player, enemy, initiative_order,
                   turn_order, current_turn, round_number>>

\* Combat.end_combat
end_combat ==
    IF ~is_active
    THEN /\ ret' = [over |-> TRUE, msg |-> "Combat already ended."]
         /\ UNCHANGED encounter
    ELSE /\ is_active' = FALSE
         /\ combat_log' = Append(combat_log, "end")
         /\ ret' = [over |-> TRUE, msg |-> Outcome(player)]
         /\ UNCHANGED <<players, enemies, player, enemy, initiative_order,
                        turn_order, current_turn, round_number>>

\* an advance that rebuilds the turn order after every turn, wrap or not
AdvanceTurn_rebuild_every_turn(pl, en, msg) ==
    LET next == (current_turn + 1) % Len(turn_order)
    IN /\ Len(combat_log) < MaxLog
       /\ player' = pl
       /\ enemy' = en
       /\ turn_order' = rebuild_turn_order(pl, en)
       /\ round_number' = IF next = 0 THEN round_number + 1 ELSE round_number
       /\ current_turn' = next
       /\ combat_log' = Append(combat_log, "turn")
       /\ ret' = [over |-> check_combat_end(pl, en, is_active), msg |-> msg]
       /\ UNCHANGED <<players, enemies, initiative_order, is_active>>

\* an advance that counts a round for every turn, wrap or not
AdvanceTurn_round_per_turn(pl, en, msg) ==
    LET next == (current_turn + 1) % Len(turn_order)
    IN /\ Len(combat_log) < MaxLog
       /\ player' = pl
       /\ enemy' = en
       /\ round_number' = round_number + 1
       /\ IF next = 0
          THEN /\ turn_order' = rebuild_turn_order(pl, en)
               /\ current_turn' = 0
          ELSE /\ current_turn' = next
               /\ UNCHANGED turn_order
       /\ combat_log' = Append(combat_log, "turn")
       /\ ret' = [over |-> check_combat_end(pl, en, is_active), msg |-> msg]
       /\ UNCHANGED <<players, enemies, initiative_order, is_active>>

\* The tail shared by next_turn and player_action ("Advance to the next turn"):
\* pl and en are the combatants after the turn was resolved.
AdvanceTurn(pl, en, msg) ==
    LET next == (current_turn + 1) % Len(turn_order)
    IN /\ Len(combat_log) < MaxLog
       /\ player' = pl
       /\ enemy' = en
       /\ IF next = 0
          THEN /\ round_number' = round_number + 1
               /\ turn_order' = rebuild_turn_order(pl, en)
               /\ current_turn' = 0
          ELSE /\ current_turn' = next
               /\ UNCHANGED <<round_number, turn_order>>
       /\ combat_log' = Append(combat_log, "turn")
       /\ ret' = [over |-> check_combat_end(pl, en, is_active), msg |-> msg]
       /\ UNCHANGED <<players, enemies, initiative_order, is_active>>

\* a rejection that still writes its message to the combat log
NotActive_logged ==
    /\ Len(combat_log) < MaxLog
    /\ ret' = [over |-> TRUE, msg |-> "Combat is not active."]
    /\ combat_log' = Append(combat_log, "turn")
    /\ UNCHANGED <<players, enemies, player, enemy, initiative_order,
                   turn_order, current_turn, round_number, is_active>>

\* "Combat is not active.": the first check of next_turn and player_action
NotActive ==
    /\ ret' = [over |-> TRUE, msg |-> "Combat is not active."]
    /\ UNCHANGED encounter

\* turn_order[current_turn] with the index out of range: the IndexError leaves
\* the method before anything was assigned
RaisesIndexError ==
    /\ ret' = [over |-> FALSE, msg |-> "IndexError"]
    /\ UNCHANGED encounter

\* Enemy.attack_player(target): a varied hit on the target
attack_player(e, t) ==
    \E damage \in VariedDamage(enemy[e].attack) :
        AdvanceTurn([player EXCEPT ![t].health = take_damage(@, player[t].defense, damage)],
            enemy, "enemy attacks")

\* a use_ability whose heal is not held at max_health
use_ability_heal_unclamped(e, t, a) ==
    LET ability == abilities(e)[a]
    IN CASE ability.type = "damage" ->
              AdvanceTurn([player EXCEPT ![t].health =
                      take_damage(@, player[t].defense,
                                  IntDiv(enemy[e].attack * ability.multiplier, 100))],
                  enemy, "enemy uses damage ability")
         [] ability.type = "heal" ->
              AdvanceTurn(player,
                  [enemy EXCEPT ![e].health =
                      @ + IntDiv(enemy[e].max_health * ability.multiplier, 100)],
                  "enemy uses heal ability")
         [] ability.type = "stun" ->
              AdvanceTurn(player, enemy, "enemy uses stun ability")

\* Enemy.use_ability(target) with the ability a chosen: damage on the target,
\* a heal of the enemy itself, or a stun that touches nothing
use_ability(e, t, a) ==
    LET ability == abilities(e)[a]
    IN CASE ability.type = "damage" ->
              AdvanceTurn([player EXCEPT ![t].health =
                      take_damage(@, player[t].defense,
                                  IntDiv(enemy[e].attack * ability.multiplier, 100))],
                  enemy, "enemy uses damage ability")
         [] ability.type = "heal" ->
              AdvanceTurn(player,
                  [enemy EXCEPT ![e].health =
                      Min(@ + IntDiv(enemy[e].max_health * ability.multiplier, 100),
                          enemy[e].max_health)],
                  "enemy uses heal ability")
         [] ability.type = "stun" ->
              AdvanceTurn(player, enemy, "enemy uses stun ability")

\* a target list that keeps the defeated players
alive_players_unfiltered == Range(players)

\* alive_players of next_turn: [p for p in self.players if p.is_alive()]
alive_players ==
    {players[i] : i \in {j \in DOMAIN players : is_alive(player[players[j]])}}

\* a ResolveTurn that waits at the entry of a player: nothing moves
ResolveTurn_waits_for_player ==
    IF current_turn >= Len(turn_order) THEN RaisesIndexError
    ELSE LET current == turn_order[current_turn + 1]
             e == current.entity
         IN IF current.type = "enemy"
            THEN IF is_alive(enemy[e])
                 THEN IF alive_players # {}
                      THEN \E t \in alive_players :
                              \/ attack_player(e, t)
                              \/ \E a \in DOMAIN abilities(e) : use_ability(e, t, a)
                      ELSE AdvanceTurn(player, enemy, "no targets available")
                 ELSE AdvanceTurn(player, enemy, "already defeated")
            ELSE /\ ret' = [over |-> FALSE, msg |-> ""]
                 /\ UNCHANGED encounter

\* next_turn from "Get the current combatant" on: the entry at the turn pointer
\* is resolved and the turn advances
ResolveTurn ==
    IF current_turn >= Len(turn_order) THEN RaisesIndexError
    ELSE LET current == turn_order[current_turn + 1]
             e == current.entity
         IN IF current.type = "enemy"
            THEN IF is_alive(enemy[e])
                 THEN IF alive_players # {}
                      THEN \E t \in alive_players :
                              \/ attack_player(e, t)
                              \/ \E a \in DOMAIN abilities(e) : use_ability(e, t, a)
                      ELSE AdvanceTurn(player, enemy, "no targets available")
                 ELSE AdvanceTurn(player, enemy, "already defeated")
            ELSE AdvanceTurn(player, enemy, "")

\* a next_turn that resolves the turn without looking at the end condition
next_turn_without_end_check ==
    IF ~is_active THEN NotActive ELSE ResolveTurn

\* Combat.next_turn
next_turn ==
    IF ~is_active THEN NotActive
    ELSE IF check_combat_end(player, enemy, is_active)
    THEN /\ is_active' = FALSE
         /\ combat_log' = Append(combat_log, "end")
         /\ ret' = [over |-> TRUE, msg |-> Outcome(player)]
         /\ UNCHANGED <<players, enemies, player, enemy, initiative_order,
                        turn_order, current_turn, round_number>>
    ELSE ResolveTurn

\* the items of the drops whose index is in S, in table order
PickDrops(drops, S) ==
    LET F[i \in 0..Len(drops)] ==
            IF i = 0 THEN <<>>
            ELSE IF i \in S THEN Append(F[i - 1], drops[i].item) ELSE F[i - 1]
    IN F[Len(drops)]

\* Enemy.get_drops: every entry passes or fails its own roll (random() < chance)
get_drops(e) ==
    LET drops == possible_drops(e)
    IN { PickDrops(drops, S) :
            S \in { T \in SUBSET DOMAIN drops :
                      /\ \A i \in T : drops[i].chance > 0
                      /\ \A i \in DOMAIN drops \ T : drops[i].chance < 100 } }

\* the drops without the item_drop_chance roll in front of them
DropResults_without_gate(e) == get_drops(e)

\* what the item-drop check of a defeat can add to the inventory: nothing when
\* the item_drop_chance roll fails, else the drops of get_drops
DropResults(e) ==
    (IF item_drop_chance(e) < 100 THEN {<<>>} ELSE {})
    \cup (IF item_drop_chance(e) > 0 THEN get_drops(e) ELSE {})

\* "Check if enemy was defeated" after a hit by p: experience, gold and drops
GrantRewards(p, r, t) ==
    LET r1 == gain_experience(p, r, experience_reward(t))
    IN { [r1 EXCEPT !.gold = @ + gold_reward(t), !.inventory = @ \o items] :
            items \in DropResults(t) }

\* a Strike that grants the rewards on every hit, defeated or not
Strike_rewards_every_hit(p, t, damage, pl, msg) ==
    LET en == [enemy EXCEPT ![t].health = take_damage(@, enemy[t].defense, damage)]
    IN \E r \in GrantRewards(p, pl[p], t) :
          /\ r.gold <= MaxGold
          /\ AdvanceTurn([pl EXCEPT ![p] = r], en, msg)

\* the attack and skill branches from "Apply damage to enemy" on: pl is the
\* players after any mana was spent, damage the raw damage
Strike(p, t, damage, pl, msg) ==
    LET en == [enemy EXCEPT ![t].health = take_damage(@, enemy[t].defense, damage)]
    IN IF ~is_alive(en[t])
       THEN \E r \in GrantRewards(p, pl[p], t) :
               /\ r.gold <= MaxGold
               /\ AdvanceTurn([pl EXCEPT ![p] = r], en,
                              msg \o " You defeated the enemy!")
       ELSE AdvanceTurn(pl, en, msg)

SumLevels(es) ==
    LET F[i \in 0..Len(es)] == IF i = 0 THEN 0 ELSE F[i - 1] + enemy[es[i]].level
    IN F[Len(es)]

\* flee_chance in percent, times len(enemies)
FleePercentTimesN(p) ==
    BaseFleePercent * Len(enemies)
    + FleePercentPerLevel * (player[p].level * Len(enemies) - SumLevels(enemies))

\* a flee branch whose success falls through to "Advance to the next turn"
Flee_advancing(p) ==
    LET next == (current_turn + 1) % Len(turn_order)
    IN \/ /\ FleePercentTimesN(p) > 0
          /\ is_active' = FALSE
          /\ ret' = [over |-> TRUE, msg |-> "You successfully fled from combat!"]
          /\ current_turn' = next
          /\ round_number' = IF next = 0 THEN round_number + 1 ELSE round_number
          /\ turn_order' = IF next = 0 THEN rebuild_turn_order(player, enemy) ELSE turn_order
          /\ UNCHANGED <<players, enemies, player, enemy, initiative_order, combat_log>>
       \/ /\ FleePercentTimesN(p) < 100 * Len(enemies)
          /\ AdvanceTurn(player, enemy, "You tried to flee but couldn't escape!")

\* the flee branch: random.random() < flee_chance
Flee(p) ==
    \/ /\ FleePercentTimesN(p) > 0
       /\ is_active' = FALSE
       /\ ret' = [over |-> TRUE, msg |-> "You successfully fled from combat!"]
       /\ UNCHANGED <<players, enemies, player, enemy, initiative_order,
                      turn_order, current_turn, round_number, combat_log>>
    \/ /\ FleePercentTimesN(p) < 100 * Len(enemies)
       /\ AdvanceTurn(player, enemy, "You tried to flee but couldn't escape!")

\* a skill branch that returns on an unknown skill before the turn advances
UseSkill_unknown_returns(p, t, skill_name) ==
    LET cls == player_class(p)
    IN IF skill_name \notin SkillNames(cls, player[p].level)
       THEN /\ ret' = [over |-> FALSE, msg |-> "You don't have the skill."]
            /\ UNCHANGED encounter
       ELSE LET skill == AllSkills(cls)[skill_name]
            IN IF player[p].mana < skill.mana_cost
               THEN AdvanceTurn(player, enemy, "You don't have enough mana.")
               ELSE Strike(p, t,
                           IntDiv(player[p].attack * skill.damage_multiplier, 100),
                           [player EXCEPT ![p] = use_mana(@, skill.mana_cost)],
                           "You use the skill.")

\* the skill branch
UseSkill(p, t, skill_name) ==
    LET cls == player_class(p)
    IN IF skill_name \notin SkillNames(cls, player[p].level)
       THEN AdvanceTurn(player, enemy, "You don't have the skill.")
       ELSE LET skill == AllSkills(cls)[skill_name]
            IN IF player[p].mana < skill.mana_cost
               THEN AdvanceTurn(player, enemy, "You don't have enough mana.")
               ELSE Strike(p, t,
                           IntDiv(player[p].attack * skill.damage_multiplier, 100),
                           [player EXCEPT ![p] = use_mana(@, skill.mana_cost)],
                           "You use the skill.")

\* a turn check that looks at the kind of the entry only
is_players_turn_any_player(current, p) == current.type = "player"

\* "Check if it's this player's turn": current is the entry at the turn pointer
is_players_turn(current, p) == current.type = "player" /\ current.entity = p

\* Combat.player_action
player_action(p, action, target_index, skill_name) ==
    IF ~is_active THEN NotActive
    ELSE IF current_turn >= Len(turn_order) THEN RaisesIndexError
    ELSE LET current == turn_order[current_turn + 1]
         IN IF ~is_players_turn(current, p)
            THEN /\ ret' = [over |-> FALSE, msg |-> "It's not your turn yet."]
                 /\ UNCHANGED encounter
            ELSE IF ~(0 <= target_index /\ target_index < Len(enemies))
            THEN AdvanceTurn(player, enemy, "Invalid target.")
            ELSE LET t == enemies[target_index + 1]
                 IN CASE action = "attack" ->
                           \E damage \in VariedDamage(player[p].attack) :
                               Strike(p, t, damage, player, "You attack.")
                      [] action = "skill" /\ skill_name # None ->
                           UseSkill(p, t, skill_name)
                      [] action = "item" ->
                           AdvanceTurn(player, enemy, "Item usage is not implemented yet.")
                      [] action = "flee" -> Flee(p)
                      [] OTHER ->
                           AdvanceTurn(player, enemy, "Invalid action.")

(* ------------------------------------------------------------ the callers *)
Actions == {"attack", "skill", "item", "flee", "dance"}
TargetIndexes == -1 .. Cardinality(EnemyIds) - 1
SkillArgs == {None, "Basic Attack", "Heroic Strike"}

PlayerActionCall ==
    \E p \in PlayerIds, target_index \in TargetIndexes :
        \/ \E action \in Actions \ {"skill"} :
              player_action(p, action, target_index, None)
        \/ \E skill_name \in SkillArgs :
              player_action(p, "skill", target_index, skill_name)

Next ==
    \/ start_combat /\ UNCHANGED <<registry, persistence>>
    \/ next_turn /\ UNCHANGED <<starts, registry, persistence>>
    \/ PlayerActionCall /\ UNCHANGED <<starts, registry, persistence>>
    \/ end_combat /\ UNCHANGED <<starts, registry, persistence>>

Spec == Init /\ [][Next]_vars

(* ================================================================ claims *)
living_players == {p \in Range(players) : is_alive(player[p])}
living_enemies == {e \in Range(enemies) : is_alive(enemy[e])}

\* C1: in every reachable state every player and every enemy has
\* 0 <= health <= max_health.
C1_HealthInRange ==
    /\ \A p \in PlayerIds : 0 <= player[p].health /\ player[p].health <= player[p].max_health
    /\ \A e \in EnemyIds : 0 <= enemy[e].health /\ enemy[e].health <= enemy[e].max_health

\* an enemy has just healed itself, a player has levelled up and a combatant
\* has been brought to zero health
C1_Witness ==
    /\ ret.msg = "enemy uses heal ability"
    /\ \E p \in PlayerIds : player[p].level > 1
    /\ \E e \in EnemyIds : enemy[e].health = 0

\* C2: rewards are granted once per defeat: whenever a player's experience,
\* gold or inventory changes, some enemy went from living to defeated in that
\* step, so an action aimed at an enemy already at zero health grants nothing.
C2_RewardOncePerDefeat ==
    [][\A p \in PlayerIds :
          (\/ player'[p].experience # player[p].experience
           \/ player'[p].gold # player[p].gold
           \/ player'[p].inventory # player[p].inventory)
          => \E e \in EnemyIds : is_alive(enemy[e]) /\ ~is_alive(enemy'[e])]_vars

\* C3: whenever the encounter is active the turn order is non-empty and the
\* turn pointer indexes into it, and no call ends in an IndexError.
C3_TurnPointerValid ==
    /\ is_active => /\ Len(turn_order) > 0
                    /\ 0 <= current_turn
                    /\ current_turn < Len(turn_order)
    /\ ret.msg # "IndexError"

\* C4: after start_combat, an encounter in which one side has no living member
\* is not active.
C4_InactiveWhenSideDown ==
    (combat_log # <<>> /\ (living_players = {} \/ living_enemies = {}))
        => ~is_active

\* the entry at the turn pointer is not the player p
NotAtTurnPointer(p) ==
    /\ current_turn < Len(turn_order)
    /\ turn_order[current_turn + 1] # [type |-> "player", entity |-> p]

C6_InertWhenInactive ==
    ~is_active =>
        ~ENABLED (/\ next_turn \/ PlayerActionCall
                  /\ ~(/\ ret' = [over |-> TRUE, msg |-> "Combat is not active."]
                       /\ UNCHANGED encounter))

\* a call was turned away from an encounter that had been fought and ended
C6_Witness ==
    /\ ret.msg = "Combat is not active."
    /\ ~is_active
    /\ Len(combat_log) > 2

\* C7: end_combat can be called in every state; on an active encounter it
\* clears the active flag, returns the summary and touches nothing but the
\* flag and the log; on an inactive one it returns "Combat already ended." and
\* changes nothing.
C7_EndIdempotent ==
    /\ ENABLED end_combat
    /\ ~ENABLED (/\ end_combat
                 /\ ~(IF is_active
                      THEN /\ ~is_active'
                           /\ ret'.msg \in {"Victory!", "Defeat!"}
                           /\ combat_log' = Append(combat_log, "end")
                           /\ UNCHANGED <<players, enemies, player, enemy, initiative_order,
                                          turn_order, current_turn, round_number>>
                      ELSE /\ ret'.msg = "Combat already ended."
                           /\ UNCHANGED encounter))

\* end_combat was called again on an encounter it had ended
C7_Witness ==
    /\ ret.msg = "Combat already ended."
    /\ Len(combat_log) > 1
    /\ combat_log[Len(combat_log)] = "end"

\* a turn was consumed: next_turn or player_action reached "Advance to the
\* next turn" and logged its message
TurnConsumed == combat_log' = Append(combat_log, "turn")

\* the turn pointer is at the last position of the turn order
AtLastPosition == current_turn = Len(turn_order) - 1

\* C8: the round counter is 1 after start_combat; a consumed turn increments
\* it by exactly 1 when the pointer wraps from the last position to 0 and
\* leaves it alone otherwise; nothing else changes it.
C8_RoundCounter ==
    [][/\ starts' # starts => round_number' = 1
       /\ (TurnConsumed /\ AtLastPosition) =>
             (round_number' = round_number + 1 /\ current_turn' = 0)
       /\ (TurnConsumed /\ ~AtLastPosition) =>
             (round_number' = round_number /\ current_turn' = current_turn + 1)
       /\ round_number' # round_number =>
             (starts' # starts \/ (TurnConsumed /\ AtLastPosition))]_vars

\* the third round of an encounter that has lost a combatant
C8_Witness ==
    /\ round_number = 3
    /\ Len(turn_order) < Len(initiative_order)

\* s is t with some entries removed
IsSubseq(s, t) ==
    LET F[i \in 0..Len(s), j \in 0..Len(t)] ==
            IF i = 0 THEN TRUE
            ELSE IF j = 0 THEN FALSE
            ELSE IF s[i] = t[j] THEN F[i - 1, j - 1]
            ELSE F[i, j - 1]
    IN F[Len(s), Len(t)]

\* the combatant of entry c is at zero health after the step
DefeatedAfter(c) ==
    IF c.type = "player" THEN ~is_alive(player'[c.entity])
    ELSE ~is_alive(enemy'[c.entity])

\* C9: but for start_combat no step changes the initiative order; the turn
\* order is always a subsequence of it, and a step changes the turn order only
\* by removing entries of defeated combatants.
C9_InitiativeOrderFixed ==
    /\ [](IsSubseq(turn_order, initiative_order))
    /\ [][starts' = starts =>
            /\ initiative_order' = initiative_order
            /\ turn_order' # turn_order =>
                  /\ IsSubseq(turn_order', turn_order)
                  /\ \A i \in DOMAIN turn_order :
                        turn_order[i] \notin Range(turn_order') =>
                            DefeatedAfter(turn_order[i])]_vars

\* two survivors of three combatants in a later round
C9_Witness ==
    /\ Len(initiative_order) = 3
    /\ Len(turn_order) = 2
    /\ round_number > 1
    /\ is_active

\* what C10 says of a player_action that attempted to flee
FleeRule ==
    /\ ret'.msg = "You successfully fled from combat!" =>
          /\ ~is_active'
          /\ UNCHANGED <<current_turn, turn_order, round_number>>
    /\ ret'.msg = "You tried to flee but couldn't escape!" =>
          /\ is_active'
          /\ current_turn' = (current_turn + 1) % Len(turn_order)
          /\ round_number' = round_number + (IF AtLastPosition THEN 1 ELSE 0)
          /\ turn_order' = IF AtLastPosition
                           THEN SelectSeq(initiative_order, LAMBDA c : ~DefeatedAfter(c))
                           ELSE turn_order

\* C10: a flee by the player at the turn pointer either succeeds, and then the
\* encounter is inactive with turn pointer, turn order and round unchanged, or
\* fails, and then the encounter stays active and the pointer advances by one
\* position, with round increment and rebuild when it wraps.
C10_Flee ==
    \A p \in PlayerIds, target_index \in TargetIndexes :
        (/\ is_active
         /\ current_turn < Len(turn_order)
         /\ turn_order[current_turn + 1] = [type |-> "player", entity |-> p]
         /\ 0 <= target_index /\ target_index < Len(enemies)) =>
            ~ENABLED (/\ player_action(p, "flee", target_index, None)
                      /\ ~(/\ ret'.msg \in {"You successfully fled from combat!",
                                            "You tried to flee but couldn't escape!"}
                           /\ FleeRule))

\* a player fled in the middle of a round
C10_Witness ==
    /\ ret.msg = "You successfully fled from combat!"
    /\ ~is_active
    /\ current_turn > 0
    /\ round_number > 1

\* a flee failed on the last position of the turn order
C10_FailedFleeWrapped ==
    /\ ret.msg = "You tried to flee but couldn't escape!"
    /\ is_active
    /\ current_turn = 0
    /\ round_number > 1

FailedActionRule(msg) ==
    /\ ret'.msg = msg
    /\ TurnConsumed
    /\ current_turn' = (current_turn + 1) % Len(turn_order)
    /\ round_number' = round_number + (IF AtLastPosition THEN 1 ELSE 0)
    /\ player' = player
    /\ enemy' = enemy
    /\ is_active'

\* C12: for the player at the turn pointer, a player_action with a target
\* index out of range, an action name that is none of the four, a skill the
\* player does not have or a skill the player cannot pay for has one outcome:
\* its message, the pointer one position on (round + 1 on wrap), every
\* combatant as before and the encounter still active.
C12_FailedActionConsumesTurn ==
    \A p \in PlayerIds :
        (/\ is_active
         /\ current_turn < Len(turn_order)
         /\ turn_order[current_turn + 1] = [type |-> "player", entity |-> p]) =>
            \A target_index \in TargetIndexes :
                IF ~(0 <= target_index /\ target_index < Len(enemies))
                THEN \A action \in Actions, skill_name \in SkillArgs :
                        ~ENABLED (/\ player_action(p, action, target_index, skill_name)
                                  /\ ~FailedActionRule("Invalid target."))
                ELSE /\ ~ENABLED (/\ player_action(p, "dance", target_index, None)
                                  /\ ~FailedActionRule("Invalid action."))
                     /\ \A skill_name \in SkillArgs \ {None} :
                           LET cls == player_class(p)
                           IN IF skill_name \notin SkillNames(cls, player[p].level)
                              THEN ~ENABLED (/\ player_action(p, "skill", target_index, skill_name)
                                             /\ ~FailedActionRule("You don't have the skill."))
                              ELSE player[p].mana < AllSkills(cls)[skill_name].mana_cost =>
                                   ~ENABLED (/\ player_action(p, "skill", target_index, skill_name)
                                             /\ ~FailedActionRule("You don't have enough mana."))

\* a Warrior of level 2 could not pay for a skill, and the round went on
C12_Witness ==
    /\ ret.msg = "You don't have enough mana."
    /\ is_active
    /\ \E p \in PlayerIds : player[p].level = 2 /\ player[p].mana < 10

\* the other three failures were reported
C12_OtherFailuresReached ==
    /\ ret.msg \in {"Invalid target.", "Invalid action.", "You don't have the skill."}
    /\ is_active
    /\ round_number > 1

\* the end condition of the state after the step, from the combatants' health
EndConditionAfter ==
    \/ \A i \in DOMAIN players' : player'[players'[i]].health <= 0
    \/ \A i \in DOMAIN enemies' : enemy'[enemies'[i]].health <= 0
    \/ ~is_active'

\* C13: check_combat_end is true exactly when no player is alive, or no enemy
\* is alive, or the encounter is inactive, in every state and as the status a
\* consumed turn returns; end_combat on an active encounter reports victory
\* if and only if a player is alive.
C13_CheckEndAndOutcome ==
    /\ check_combat_end(player, enemy, is_active)
          <=> (living_players = {} \/ living_enemies = {} \/ ~is_active)
    /\ ~ENABLED (/\ next_turn \/ PlayerActionCall
                 /\ TurnConsumed
                 /\ ret'.over # EndConditionAfter)
    /\ is_active =>
          ~ENABLED (/\ end_combat
                    /\ ret'.msg # (IF living_players # {} THEN "Victory!" ELSE "Defeat!"))

\* a lone player has defeated both of two enemies and end_combat said victory
C13_Witness ==
    /\ ret.msg = "Victory!"
    /\ Len(players) = 1
    /\ Len(enemies) = 2
    /\ living_enemies = {}
    /\ living_players # {}

\* every player at zero health and end_combat said defeat
C13_DefeatReported ==
    /\ ret.msg = "Defeat!"
    /\ living_players = {}
    /\ living_enemies # {}

\* C14: while the encounter goes on (every step but a new start_combat), a
\* player or an enemy at zero health stays at zero health.
C14_DefeatedStayDefeated ==
    [][starts' = starts =>
          /\ \A p \in Range(players) : player[p].health = 0 => player'[p].health = 0
          /\ \A e \in Range(enemies) : enemy[e].health = 0 => enemy'[e].health = 0]_vars

\* the enemy has no heal ability
NoHealAbility(e) == \A a \in DOMAIN abilities(e) : abilities(e)[a].type # "heal"

\* what C15 says of an attack by p on the living enemy t: the health goes
\* down, and the rewards are granted if and only if it reaches zero
AttackRule(p, t) ==
    LET granted == IF enemy'[t].health = 0 THEN 1 ELSE 0
    IN /\ enemy'[t].health < enemy[t].health
       /\ enemy'[t].health >= 0
       /\ player'[p].experience = player[p].experience + granted * experience_reward(t)
       /\ player'[p].gold = player[p].gold + granted * gold_reward(t)
       /\ granted = 0 => player'[p].inventory = player[p].inventory

\* C15: the health of an enemy without a heal ability never goes up; every
\* attack of the player at the turn pointer on a living enemy lowers its
\* health by at least 1, so at most (health) attacks take it to zero, and the
\* rewards are granted by the attack that takes it to zero and by none before.
C15_AttacksMakeProgress ==
    /\ [](\A p \in PlayerIds, target_index \in TargetIndexes :
            (/\ is_active
             /\ current_turn < Len(turn_order)
             /\ turn_order[current_turn + 1] = [type |-> "player", entity |-> p]
             /\ 0 <= target_index /\ target_index < Len(enemies)
             /\ enemy[enemies[target_index + 1]].health > 0) =>
                ~ENABLED (/\ player_action(p, "attack", target_index, None)
                          /\ ~AttackRule(p, enemies[target_index + 1])))
    /\ [][\A e \in EnemyIds :
            NoHealAbility(e) => enemy'[e].health <= enemy[e].health]_vars

\* the enemy without a heal was attacked down to zero and one grant was made
C15_Witness ==
    /\ ret.msg = "You attack. You defeated the enemy!"
    /\ enemy["e2"].health = 0
    /\ enemy["e1"].health > 0
    /\ player["p1"].gold = gold_reward("e2")
    /\ player["p1"].experience = experience_reward("e2")

\* an attack that did not defeat the enemy, and granted nothing
C15_ProgressReached ==
    /\ ret.msg = "You attack."
    /\ enemy["e2"].health = 1
    /\ \A p \in PlayerIds : player[p].gold = 0

(* ----------------------------------------------------------- CombatSystem *)
\* the fields of the Combat in hand, as the registry holds them
self_combat ==
    [players |-> players, enemies |-> enemies, initiative_order |-> initiative_order,
     turn_order |-> turn_order, current_turn |-> current_turn,
     round_number |-> round_number, is_active |-> is_active, combat_log |-> combat_log]

\* CombatSystem.active_combats: combat id -> Combat
active_combats ==
    [id \in DOMAIN other_combats \cup (IF focus = NoFocus THEN {} ELSE {focus}) |->
        IF id = focus THEN self_combat ELSE other_combats[id]]

\* CombatSystem.__init__, with no Combat in hand yet
InitRegistry ==
    /\ players = <<>>
    /\ enemies = <<>>
    /\ player = [p \in PlayerIds |-> NewPlayer(p)]
    /\ enemy = [e \in EnemyIds |-> NewEnemy(e)]
    /\ initiative_order = <<>>
    /\ turn_order = <<>>
    /\ current_turn = 0
    /\ round_number = 1
    /\ is_active = FALSE
    /\ combat_log = <<>>
    /\ ret = [over |-> FALSE, msg |-> None]
    /\ starts = 0
    /\ other_combats = NoCombats
    /\ focus = NoFocus
    /\ now = 0
    /\ manager_players = <<>>
    /\ save_file = NoFile
    /\ encounter_templates = NoTemplates
    /\ callers = NoCallers

\* a second passes
Tick ==
    /\ now < MaxTime
    /\ now' = now + 1
    /\ UNCHANGED <<encounter, ret, starts, other_combats, focus, persistence, encounter_templates, callers>>

\* CombatSystem.create_combat(players, enemies): a new Combat with the given
\* lists is started and stored under combat_{int(time.time())}; the caller has
\* it in hand afterwards
create_combat(ps, es) ==
    LET combat_id == now
    IN /\ starts < MaxStarts
       /\ starts' = starts + 1
       /\ players' = ps
       /\ enemies' = es
       /\ IF ps = <<>> \/ es = <<>>
          THEN /\ is_active' = FALSE
               /\ round_number' = 1
               /\ initiative_order' = <<>>
               /\ turn_order' = <<>>
               /\ current_turn' = 0
               /\ combat_log' = <<>>
          ELSE \E order \in StartOrders[<<ps, es>>] :
               /\ is_active' = TRUE
               /\ round_number' = 1
               /\ initiative_order' = order
               /\ turn_order' = order
               /\ current_turn' = 0
               /\ combat_log' = <<"start">>
       /\ other_combats' = [id \in DOMAIN active_combats \ {combat_id} |-> active_combats[id]]
       /\ focus' = combat_id
       /\ ret' = [over |-> FALSE, msg |-> "Combat created"]
       /\ UNCHANGED <<player, enemy, now, persistence, encounter_templates, callers>>

\* CombatSystem.get_combat(combat_id) of a Combat the registry holds: the
\* caller takes that one in hand
get_combat(combat_id) ==
    /\ combat_id \in DOMAIN other_combats
    /\ other_combats' = [id \in DOMAIN active_combats \ {combat_id} |-> active_combats[id]]
    /\ focus' = combat_id
    /\ players' = other_combats[combat_id].players
    /\ enemies' = other_combats[combat_id].enemies
    /\ initiative_order' = other_combats[combat_id].initiative_order
    /\ turn_order' = other_combats[combat_id].turn_order
    /\ current_turn' = other_combats[combat_id].current_turn
    /\ round_number' = other_combats[combat_id].round_number
    /\ is_active' = other_combats[combat_id].is_active
    /\ combat_log' = other_combats[combat_id].combat_log
    /\ UNCHANGED <<player, enemy, ret, starts, now, persistence, encounter_templates, callers>>

\* CombatSystem.end_combat(combat_id)
CombatSystem_end_combat(combat_id) ==
    IF combat_id \notin DOMAIN active_combats
    THEN /\ ret' = [over |-> TRUE, msg |-> "No combat found"]
         /\ UNCHANGED <<encounter, starts, registry, persistence>>
    ELSE IF combat_id = focus
    THEN /\ end_combat
         /\ focus' = NoFocus
         /\ UNCHANGED <<starts, other_combats, now, persistence, encounter_templates, callers>>
    ELSE LET combat == other_combats[combat_id]
         IN /\ ret' = [over |-> TRUE,
                       msg |-> IF ~combat.is_active THEN "Combat already ended."
                               ELSE IF \E i \in DOMAIN combat.players :
                                          is_alive(player[combat.players[i]])
                               THEN "Victory!" ELSE "Defeat!"]
            /\ other_combats' = [id \in DOMAIN other_combats \ {combat_id} |-> other_combats[id]]
            /\ UNCHANGED <<encounter, starts, focus, now, persistence, encounter_templates, callers>>

NextRegistry ==
    \/ Tick
    \/ \E party \in RegistryParties : create_combat(party[1], party[2])
    \/ \E combat_id \in 0..MaxTime : get_combat(combat_id)
    \/ \E combat_id \in 0..MaxTime : CombatSystem_end_combat(combat_id)
    \/ Len(combat_log) <= MaxRegistryTurns /\ next_turn /\ UNCHANGED <<starts, registry, persistence>>
    \/ Len(combat_log) <= MaxRegistryTurns /\ PlayerActionCall /\ UNCHANGED <<starts, registry, persistence>>
    \/ end_combat /\ UNCHANGED <<starts, registry, persistence>>

SpecRegistry == InitRegistry /\ [][NextRegistry]_vars

(* --------------------------------------------------- take_damage on its own *)
\* the defense values drawn: none, the fixtures', two that meet an amount of
\* FloatShortfall, and two far above any attack
Defenses == {0, 3, 8, 16, 94, 100, 1000}

\* the raw amounts drawn: the small ones, and two of FloatShortfall
DrawnAmounts == (0..MaxAmount) \cup {97, 145}

\* one Player and one Enemy of any drawn health and defense, outside combat
InitTakeDamage ==
    /\ players = <<"p1">>
    /\ enemies = <<"e1">>
    /\ \E h \in 0..MaxDrawnHealth, d \in Defenses :
          player = [p \in PlayerIds |->
                      IF p = "p1"
                      THEN [NewPlayer(p) EXCEPT !.health = h, !.max_health = MaxDrawnHealth,
                                                !.defense = d]
                      ELSE NewPlayer(p)]
    /\ \E h \in 0..MaxDrawnHealth, d \in Defenses :
          enemy = [e \in EnemyIds |->
                      IF e = "e1"
                      THEN [NewEnemy(e) EXCEPT !.health = h, !.max_health = MaxDrawnHealth,
                                               !.defense = d]
                      ELSE NewEnemy(e)]
    /\ initiative_order = <<>>
    /\ turn_order = <<>>
    /\ current_turn = 0
    /\ round_number = 1
    /\ is_active = FALSE
    /\ combat_log = <<>>
    /\ ret = [over |-> FALSE, msg |-> None]
    /\ starts = 0
    /\ other_combats = NoCombats
    /\ focus = NoFocus
    /\ now = 0
    /\ manager_players = <<>>
    /\ save_file = NoFile
    /\ encounter_templates = NoTemplates
    /\ callers = NoCallers

\* Player.take_damage(amount): ret.value is the actual damage it returns
PlayerTakeDamage ==
    \E amount \in DrawnAmounts :
        /\ player' = [player EXCEPT !["p1"].health = take_damage(@, player["p1"].defense, amount)]
        /\ ret' = [over |-> FALSE, msg |-> "Player.take_damage", amount |-> amount,
                   value |-> actual_damage(amount, player["p1"].defense)]
        /\ UNCHANGED <<players, enemies, enemy, initiative_order, turn_order, current_turn,
                       round_number, is_active, combat_log, starts, registry, persistence>>

\* Enemy.take_damage(amount)
EnemyTakeDamage ==
    \E amount \in DrawnAmounts :
        /\ enemy' = [enemy EXCEPT !["e1"].health = take_damage(@, enemy["e1"].defense, amount)]
        /\ ret' = [over |-> FALSE, msg |-> "Enemy.take_damage", amount |-> amount,
                   value |-> actual_damage(amount, enemy["e1"].defense)]
        /\ UNCHANGED <<players, enemies, player, initiative_order, turn_order, current_turn,
                       round_number, is_active, combat_log, starts, registry, persistence>>

\* Enemy.attack_player(player) outside combat: ret.amount is the varied
\* damage handed to player.take_damage
EnemyAttackPlayer ==
    \E damage \in VariedDamage(enemy["e1"].attack) :
        /\ player' = [player EXCEPT !["p1"].health = take_damage(@, player["p1"].defense, damage)]
        /\ ret' = [over |-> FALSE, msg |-> "Enemy.attack_player", amount |-> damage,
                   value |-> actual_damage(damage, player["p1"].defense)]
        /\ UNCHANGED <<players, enemies, enemy, initiative_order, turn_order, current_turn,
                       round_number, is_active, combat_log, starts, registry, persistence>>

NextTakeDamage ==
    \/ PlayerTakeDamage
    \/ EnemyTakeDamage
    \/ EnemyAttackPlayer

SpecTakeDamage == InitTakeDamage /\ [][NextTakeDamage]_vars

\* C16: every take_damage call, on the player or on the enemy, returns an
\* actual damage of at least 1 and leaves a defender who was above zero health
\* at least 1 lower (and never below zero), whatever the amount and the defense.
C16_DamageAtLeastOne ==
    [][/\ ret'.value >= 1
       /\ (ret'.msg = "Player.take_damage" /\ player["p1"].health > 0) =>
             /\ player'["p1"].health <= player["p1"].health - 1
             /\ player'["p1"].health >= 0
       /\ (ret'.msg = "Enemy.take_damage" /\ enemy["e1"].health > 0) =>
             /\ enemy'["e1"].health <= enemy["e1"].health - 1
             /\ enemy'["e1"].health >= 0]_vars

\* a hit of amount 0 or against defense 1000 still cost the enemy one point
C16_Witness ==
    /\ ret.msg = "Enemy.take_damage"
    /\ ret.value = 1
    /\ enemy["e1"].defense = 1000
    /\ enemy["e1"].health = MaxDrawnHealth - 1

\* C17: create_combat issues an identifier the registry does not hold yet, so
\* after it the registry holds every Combat it held before and the new one.
C17_FreshIdentifier ==
    [][starts' # starts =>
          /\ focus' \notin DOMAIN active_combats
          /\ DOMAIN active_combats' = DOMAIN active_combats \cup {focus'}
          /\ \A id \in DOMAIN active_combats : active_combats'[id] = active_combats[id]]_vars

\* C18: the registry lets go of an encounter when it ends, by whatever way:
\* every Combat it holds that was started is active.
C18_RegistryHoldsActiveOnly ==
    \A id \in DOMAIN active_combats :
        active_combats[id].combat_log # <<>> => active_combats[id].is_active

\* the combatants of a Combat of the registry are as they were
CombatantsUnchanged(combat) ==
    /\ \A i \in DOMAIN combat.players : player'[combat.players[i]] = player[combat.players[i]]
    /\ \A i \in DOMAIN combat.enemies : enemy'[combat.enemies[i]] = enemy[combat.enemies[i]]

\* C19: a next_turn, player_action or end_combat on one Combat of the registry
\* leaves every other Combat of the registry (that was started) as it was,
\* fields and combatants.
C19_EncountersIndependent ==
    [][(/\ focus # NoFocus
        /\ focus' \in {focus, NoFocus}
        /\ starts' = starts
        /\ DOMAIN other_combats' = DOMAIN other_combats) =>
          \A id \in DOMAIN other_combats :
              other_combats[id].combat_log # <<>> =>
                  /\ other_combats'[id] = other_combats[id]
                  /\ CombatantsUnchanged(other_combats[id])]_vars

\* the part of C19 that holds: a Combat of the registry that shares no
\* Player and no Enemy object with the one operated on is left as it was
C19_IndependentWhenDisjoint ==
    [][(/\ focus # NoFocus
        /\ focus' \in {focus, NoFocus}
        /\ starts' = starts
        /\ DOMAIN other_combats' = DOMAIN other_combats) =>
          \A id \in DOMAIN other_combats :
              (/\ Range(other_combats[id].players) \cap Range(players) = {}
               /\ Range(other_combats[id].enemies) \cap Range(enemies) = {}) =>
                  /\ other_combats'[id] = other_combats[id]
                  /\ CombatantsUnchanged(other_combats[id])]_vars

\* C20: the combat log is append-only: across every call of start_combat,
\* next_turn, player_action and end_combat the log before the call is a
\* prefix of the log after it
C20_LogAppendOnly ==
    [][/\ Len(combat_log') >= Len(combat_log)
       /\ SubSeq(combat_log', 1, Len(combat_log)) = combat_log]_vars

\* the part of C20 that holds: next_turn, player_action and end_combat
\* (every step that is not a successful start_combat) keep the earlier entries
C20_AppendOnlyWithoutRestart ==
    [][starts' = starts =>
          /\ Len(combat_log') >= Len(combat_log)
          /\ SubSeq(combat_log', 1, Len(combat_log)) = combat_log]_vars

\* C21: the lifecycle is one-way: an encounter that was started and is
\* inactive (ended by end_combat, by a met end condition or by a flee) is
\* not made active again by any call, start_combat included.
C21_LifecycleOneWay ==
    [][(starts > 0 /\ ~is_active) => ~is_active']_vars

\* the part of C21 that holds: next_turn, player_action and end_combat never
\* set the active flag
C21_OnlyStartActivates ==
    [][(~is_active /\ is_active') => starts' # starts]_vars

(* ------------------------------------------- Enemy objects and snapshots *)
\* the levels enemies are created at
MaxEnemyLevel == 2
\* set_enemy_type compounds; it is applied while max_health is at most this
MaxScalableHealth == 100

\* an empty dict
EmptyDict == [k \in {} |-> None]

\* int(x * num/den) for a non-negative integer x
Scaled(x, num, den) == IntDiv(x * num, den)

\* Enemy.__init__(name, level); chances, multipliers and percentages are
\* held in percent
Enemy_init(name, level) ==
    [name |-> name,
     level |-> level,
     max_health |-> 20 + level * 10,
     health |-> 20 + level * 10,
     attack |-> 5 + level * 2,
     defense |-> 2 + level,
     experience_reward |-> 20 + level * 15,
     gold_reward |-> 5 + level * 3,
     item_drop_chance |-> 30,
     possible_drops |-> <<>>,
     attack_messages |-> <<"swings at you with great force", "lunges toward you",
                           "attacks with a fierce growl", "strikes quickly">>,
     enemy_type |-> "Normal",
     abilities |-> EmptyDict,
     resistances |-> EmptyDict,
     weaknesses |-> EmptyDict,
     description |-> <<"A level", ToString(level), name>>]

\* d[key] = value on a dict
DictSet(d, key, value) ==
    [k \in DOMAIN d \cup {key} |-> IF k = key THEN value ELSE d[k]]

\* Enemy.add_ability
add_ability(e, name, ability_type, multiplier, chance) ==
    [e EXCEPT !.abilities =
        DictSet(@, name, [type |-> ability_type, multiplier |-> multiplier, chance |-> chance])]

\* Enemy.add_drop
add_drop(e, item_data, drop_chance) ==
    [e EXCEPT !.possible_drops = Append(@, [item |-> item_data, chance |-> drop_chance])]

\* Enemy.add_resistance and Enemy.add_weakness
add_resistance(e, damage_type, percentage) ==
    [e EXCEPT !.resistances = DictSet(@, damage_type, percentage)]
add_weakness(e, damage_type, percentage) ==
    [e EXCEPT !.weaknesses = DictSet(@, damage_type, percentage)]

\* a set_enemy_type that scales an enemy once: a scaled enemy keeps its type
\* and its stats
set_enemy_type_once(e, enemy_type) ==
    IF enemy_type \notin {"Normal", "Elite", "Boss"} \/ e.enemy_type # "Normal" THEN e
    ELSE IF enemy_type = "Elite"
    THEN [e EXCEPT !.enemy_type = enemy_type,
                   !.max_health = Scaled(e.max_health, 15, 10),
                   !.health = Scaled(e.max_health, 15, 10),
                   !.attack = Scaled(e.attack, 13, 10),
                   !.defense = Scaled(e.defense, 13, 10),
                   !.experience_reward = e.experience_reward * 2,
                   !.gold_reward = e.gold_reward * 2,
                   !.item_drop_chance = 60]
    ELSE IF enemy_type = "Boss"
    THEN [e EXCEPT !.enemy_type = enemy_type,
                   !.max_health = e.max_health * 3,
                   !.health = e.max_health * 3,
                   !.attack = e.attack * 2,
                   !.defense = Scaled(e.defense, 15, 10),
                   !.experience_reward = e.experience_reward * 5,
                   !.gold_reward = e.gold_reward * 5,
                   !.item_drop_chance = 100]
    ELSE [e EXCEPT !.enemy_type = enemy_type]

\* Enemy.set_enemy_type
set_enemy_type(e, enemy_type) ==
    IF enemy_type \notin {"Normal", "Elite", "Boss"} THEN e
    ELSE IF enemy_type = "Elite"
    THEN [e EXCEPT !.enemy_type = enemy_type,
                   !.max_health = Scaled(e.max_health, 15, 10),
                   !.health = Scaled(e.max_health, 15, 10),
                   !.attack = Scaled(e.attack, 13, 10),
                   !.defense = Scaled(e.defense, 13, 10),
                   !.experience_reward = e.experience_reward * 2,
                   !.gold_reward = e.gold_reward * 2,
                   !.item_drop_chance = 60]
    ELSE IF enemy_type = "Boss"
    THEN [e EXCEPT !.enemy_type = enemy_type,
                   !.max_health = e.max_health * 3,
                   !.health = e.max_health * 3,
                   !.attack = e.attack * 2,
                   !.defense = Scaled(e.defense, 15, 10),
                   !.experience_reward = e.experience_reward * 5,
                   !.gold_reward = e.gold_reward * 5,
                   !.item_drop_chance = 100]
    ELSE [e EXCEPT !.enemy_type = enemy_type]

Material(name, value) == [name |-> name, type |-> "Material", value |-> value]
Weapon(name, damage, value) ==
    [name |-> name, type |-> "Weapon", damage |-> damage, value |-> value]

Templates == {"Wolf", "Goblin", "Skeleton", "Troll", "Dragon"}

\* EnemyFactory.create_enemy(name, level)
create_enemy(name, level) == Enemy_init(name, level)

\* EnemyFactory.create_enemy_from_template(template, level) for the templates
\* it knows (for any other it raises a NameError and makes no Enemy)
create_enemy_from_template(template, level) ==
    LET e == Enemy_init(template, level)
    IN CASE template = "Wolf" ->
              add_drop(
                add_drop([e EXCEPT !.attack = 6 + level * 2,
                                   !.defense = 3 + level,
                                   !.description = <<"A fierce wolf with sharp teeth and quick movements.">>,
                                   !.attack_messages = <<"lunges at you with sharp teeth", "claws at you viciously",
                                                         "bites at your leg", "howls and charges at you">>],
                         Material("Wolf Pelt", 5 + level), 70),
                Material("Wolf Fang", 8 + level * 2), 40)
         [] template = "Goblin" ->
              add_drop(
                add_drop(
                  add_ability([e EXCEPT !.attack = 5 + level * 2,
                                        !.defense = 2 + level,
                                        !.description = <<"A small, green-skinned creature with a mischievous grin.">>,
                                        !.attack_messages = <<"swings a crude dagger at you", "throws a small rock at your head",
                                                              "stabs at you with a sharpened stick", "jumps at you with its claws out">>],
                              "Sneak Attack", "damage", 150, 20),
                  Material("Goblin Ear", 3 + level), 60),
                Weapon("Crude Dagger", 4 + level, 10 + level * 3), 30)
         [] template = "Skeleton" ->
              add_drop(
                add_drop(
                  add_weakness(
                    add_resistance([e EXCEPT !.attack = 7 + level * 2,
                                             !.defense = 4 + level,
                                             !.description = <<"An animated skeleton, its bones clacking as it moves.">>,
                                             !.attack_messages = <<"swings a rusty sword at you", "tries to grab you with bony fingers",
                                                                   "thrusts a broken blade toward you", "attacks with an eerie silence">>],
                                   "pierce", 30),
                    "crush", 50),
                  Material("Bone Shard", 4 + level), 80),
                Weapon("Rusty Sword", 5 + level, 8 + level * 2), 40)
         [] template = "Troll" ->
              add_drop(
                add_drop(
                  add_ability([e EXCEPT !.max_health = 40 + level * 15,
                                        !.health = 40 + level * 15,
                                        !.attack = 10 + level * 3,
                                        !.defense = 6 + level * 2,
                                        !.experience_reward = 35 + level * 20,
                                        !.gold_reward = 15 + level * 5,
                                        !.description = <<"A large, muscular troll with tough skin and a nasty temperament.">>,
                                        !.attack_messages = <<"smashes its club down at you", "swings a massive fist toward your head",
                                                              "tries to grab and crush you", "roars and charges at you">>],
                              "Regenerate", "heal", 10, 40),
                  Material("Troll Hide", 20 + level * 5), 60),
                Weapon("Troll Club", 12 + level * 3, 25 + level * 8), 30)
         [] template = "Dragon" ->
              add_drop(
                add_drop(
                  add_drop(
                    add_resistance(
                      add_ability(
                        add_ability([set_enemy_type(e, "Boss") EXCEPT
                                        !.description = <<"A massive dragon with scales like armor and fiery breath.">>,
                                        !.attack_messages = <<"breathes a torrent of fire at you", "slashes with razor-sharp claws",
                                                              "whips its spiked tail toward you", "snaps at you with massive jaws">>],
                                    "Fire Breath", "damage", 200, 40),
                        "Wing Buffet", "stun", 0, 20),
                      "fire", 80),
                    Material("Dragon Scale", 100 + level * 20), 100),
                  Material("Dragon Tooth", 80 + level * 15), 80),
                Material("Dragon Fire Essence", 150 + level * 25), 50)

\* a from_dict that leaves health as Enemy.__init__ set it
from_dict_without_health(data) ==
    [Enemy_init(data.name, data.level) EXCEPT
        !.max_health = data.max_health,
        !.attack = data.attack,
        !.defense = data.defense,
        !.experience_reward = data.experience_reward,
        !.gold_reward = data.gold_reward,
        !.item_drop_chance = data.item_drop_chance,
        !.possible_drops = data.possible_drops,
        !.attack_messages = data.attack_messages,
        !.enemy_type = data.enemy_type,
        !.abilities = data.abilities,
        !.resistances = data.resistances,
        !.weaknesses = data.weaknesses,
        !.description = data.description]

\* Enemy.to_dict: the keys of the snapshot and the fields they are read from
to_dict(e) ==
    [name |-> e.name,
     level |-> e.level,
     max_health |-> e.max_health,
     health |-> e.health,
     attack |-> e.attack,
     defense |-> e.defense,
     experience_reward |-> e.experience_reward,
     gold_reward |-> e.gold_reward,
     item_drop_chance |-> e.item_drop_chance,
     possible_drops |-> e.possible_drops,
     attack_messages |-> e.attack_messages,
     enemy_type |-> e.enemy_type,
     abilities |-> e.abilities,
     resistances |-> e.resistances,
     weaknesses |-> e.weaknesses,
     description |-> e.description]

\* Enemy.from_dict: Enemy(name, level), then every other field from the data
from_dict(data) ==
    [Enemy_init(data["name"], data["level"]) EXCEPT
        !.max_health = data["max_health"],
        !.health = data["health"],
        !.attack = data["attack"],
        !.defense = data["defense"],
        !.experience_reward = data["experience_reward"],
        !.gold_reward = data["gold_reward"],
        !.item_drop_chance = data["item_drop_chance"],
        !.possible_drops = data["possible_drops"],
        !.attack_messages = data["attack_messages"],
        !.enemy_type = data["enemy_type"],
        !.abilities = data["abilities"],
        !.resistances = data["resistances"],
        !.weaknesses = data["weaknesses"],
        !.description = data["description"]]

\* the raw amounts the enemy under test is hit with
SnapshotHits == {1, 10, 50}
EnemyTypeArgs == {"Normal", "Elite", "Boss", "Legendary"}

\* one Enemy object, e1, made by the factory, outside combat
InitEnemy ==
    /\ players = <<>>
    /\ enemies = <<"e1">>
    /\ player = [p \in PlayerIds |-> NewPlayer(p)]
    /\ \E made \in { create_enemy_from_template(template, level) :
                         template \in Templates, level \in 1..MaxEnemyLevel }
                     \cup { create_enemy("Bandit", level) : level \in 1..MaxEnemyLevel } :
          enemy = [e \in EnemyIds |-> IF e = "e1" THEN made ELSE create_enemy("Bandit", 1)]
    /\ initiative_order = <<>>
    /\ turn_order = <<>>
    /\ current_turn = 0
    /\ round_number = 1
    /\ is_active = FALSE
    /\ combat_log = <<>>
    /\ ret = [over |-> FALSE, msg |-> None]
    /\ starts = 0
    /\ other_combats = NoCombats
    /\ focus = NoFocus
    /\ now = 0
    /\ manager_players = <<>>
    /\ save_file = NoFile
    /\ encounter_templates = NoTemplates
    /\ callers = NoCallers

\* what the calls on the Enemy object leave alone
EnemyFrame == <<players, enemies, player, initiative_order, turn_order, current_turn,
                round_number, is_active, combat_log, starts, registry, persistence>>

\* enemy.set_enemy_type(enemy_type)
EnemySetType ==
    \E enemy_type \in EnemyTypeArgs :
        /\ enemy["e1"].max_health <= MaxScalableHealth
        /\ enemy' = [enemy EXCEPT !["e1"] = set_enemy_type(@, enemy_type)]
        /\ ret' = [over |-> FALSE, msg |-> "Enemy.set_enemy_type", enemy_type |-> enemy_type]
        /\ UNCHANGED EnemyFrame

\* enemy.take_damage(amount)
EnemyHit ==
    \E amount \in SnapshotHits :
        /\ enemy' = [enemy EXCEPT !["e1"].health = take_damage(@, enemy["e1"].defense, amount)]
        /\ ret' = [over |-> FALSE, msg |-> "Enemy.take_damage"]
        /\ UNCHANGED EnemyFrame

\* Enemy.from_dict(enemy.to_dict()): ret.value is the Enemy it returns
EnemyRoundTrip ==
    /\ ret' = [over |-> FALSE, msg |-> "Enemy.from_dict", value |-> from_dict(to_dict(enemy["e1"]))]
    /\ UNCHANGED <<enemy, EnemyFrame>>

NextEnemy ==
    \/ EnemySetType
    \/ EnemyHit
    \/ EnemyRoundTrip

SpecEnemy == InitEnemy /\ [][NextEnemy]_vars

\* C22: Enemy.from_dict(e.to_dict()) has the state of e, field for field,
\* whatever template and type scaling made e and whatever damage it took.
C22_EnemyRoundTrip ==
    ret.msg = "Enemy.from_dict" =>
        /\ DOMAIN ret.value = DOMAIN enemy["e1"]
        /\ \A f \in DOMAIN enemy["e1"] : ret.value[f] = enemy["e1"][f]

\* a damaged Elite made from a template with drops and an ability came back
C22_Witness ==
    /\ ret.msg = "Enemy.from_dict"
    /\ enemy["e1"].enemy_type = "Elite"
    /\ enemy["e1"].health < enemy["e1"].max_health
    /\ enemy["e1"].health > 0
    /\ enemy["e1"].possible_drops # <<>>
    /\ DOMAIN enemy["e1"].abilities # {}

(* ---------------------------------------------------------- PlayerManager *)
\* a managed player gains experience up to this level
MaxManagedLevel == 2

\* Player.__init__(name, player_class) with _apply_class_bonuses; skills are
\* not held: _get_class_skills derives them from class and level
Player_init(name, cls) ==
    [name |-> name,
     player_class |-> cls,
     level |-> 1,
     experience |-> 0,
     location |-> "Town Square",
     max_health |-> 100 + (IF cls = "Warrior" THEN 20 ELSE IF cls = "Cleric" THEN 10 ELSE 0),
     health |-> 100 + (IF cls = "Warrior" THEN 20 ELSE IF cls = "Cleric" THEN 10 ELSE 0),
     mana |-> 50 + (IF cls = "Warrior" THEN -20 ELSE IF cls = "Mage" THEN 30
                    ELSE IF cls = "Cleric" THEN 20 ELSE 0),
     max_mana |-> 50 + (IF cls = "Warrior" THEN -20 ELSE IF cls = "Mage" THEN 30
                        ELSE IF cls = "Cleric" THEN 20 ELSE 0),
     attack |-> 10 + (IF cls = "Warrior" THEN 5 ELSE IF cls = "Mage" THEN 2
                      ELSE IF cls = "Rogue" THEN 3 ELSE 0),
     defense |-> 5 + (IF cls = "Warrior" THEN 3 ELSE IF cls \in {"Mage", "Rogue"} THEN -1
                      ELSE IF cls = "Cleric" THEN 1 ELSE 0),
     speed |-> PlayerSpeed + (IF cls = "Rogue" THEN 5 ELSE 0),
     inventory |-> <<>>,
     gold |-> 50,
     equipment |-> [weapon |-> None, armor |-> None, accessory |-> None],
     active_quests |-> <<>>,
     completed_quests |-> <<>>,
     relationships |-> EmptyDict]

\* the keys Player.from_dict reads
PlayerKeys ==
    {"name", "player_class", "level", "experience", "health", "max_health", "mana",
     "max_mana", "attack", "defense", "speed", "location", "inventory", "gold",
     "equipment", "active_quests", "completed_quests", "relationships"}

\* Player.to_dict
Player_to_dict(r) ==
    [name |-> r.name,
     player_class |-> r.player_class,
     level |-> r.level,
     experience |-> r.experience,
     health |-> r.health,
     max_health |-> r.max_health,
     mana |-> r.mana,
     max_mana |-> r.max_mana,
     attack |-> r.attack,
     defense |-> r.defense,
     speed |-> r.speed,
     location |-> r.location,
     inventory |-> r.inventory,
     gold |-> r.gold,
     equipment |-> r.equipment,
     active_quests |-> r.active_quests,
     completed_quests |-> r.completed_quests,
     relationships |-> r.relationships]

\* Player.from_dict raises a KeyError: the data lack a key it reads
Player_from_dict_raises(data) == ~(PlayerKeys \subseteq DOMAIN data)

\* Player.from_dict on data that have every key
Player_from_dict(data) ==
    [Player_init(data["name"], data["player_class"]) EXCEPT
        !.level = data["level"],
        !.experience = data["experience"],
        !.health = data["health"],
        !.max_health = data["max_health"],
        !.mana = data["mana"],
        !.max_mana = data["max_mana"],
        !.attack = data["attack"],
        !.defense = data["defense"],
        !.speed = data["speed"],
        !.location = data["location"],
        !.inventory = data["inventory"],
        !.gold = data["gold"],
        !.equipment = data["equipment"],
        !.active_quests = data["active_quests"],
        !.completed_quests = data["completed_quests"],
        !.relationships = data["relationships"]]

\* the position of the key name in the items of a dict, 0 if it has none
ItemIndex(items, name) ==
    IF \E i \in DOMAIN items : items[i].name = name
    THEN CHOOSE i \in DOMAIN items : items[i].name = name
    ELSE 0

\* d[name] = value: a key the dict has keeps its place, a new one goes last
ItemsPut(items, name, value) ==
    IF ItemIndex(items, name) # 0
    THEN [items EXCEPT ![ItemIndex(items, name)].player = value]
    ELSE Append(items, [name |-> name, player |-> value])

\* del d[name]
ItemsDel(items, name) == SelectSeq(items, LAMBDA it : it.name # name)

\* PlayerManager.__init__; players.json does not exist yet
InitPlayerManager ==
    /\ players = <<>>
    /\ enemies = <<>>
    /\ player = [p \in PlayerIds |-> NewPlayer(p)]
    /\ enemy = [e \in EnemyIds |-> NewEnemy(e)]
    /\ initiative_order = <<>>
    /\ turn_order = <<>>
    /\ current_turn = 0
    /\ round_number = 1
    /\ is_active = FALSE
    /\ combat_log = <<>>
    /\ ret = [over |-> FALSE, msg |-> None]
    /\ starts = 0
    /\ other_combats = NoCombats
    /\ focus = NoFocus
    /\ now = 0
    /\ manager_players = <<>>
    /\ save_file = NoFile
    /\ encounter_templates = NoTemplates
    /\ callers = NoCallers

\* what the PlayerManager leaves alone
ManagerFrame == <<encounter, starts, registry>>

\* PlayerManager.add_player(Player(name, player_class))
add_player ==
    \E name \in PlayerIds :
        /\ manager_players' = ItemsPut(manager_players, name, Player_init(name, player_class(name)))
        /\ ret' = [over |-> FALSE, msg |-> "add_player"]
        /\ UNCHANGED <<save_file, ManagerFrame>>

\* PlayerManager.remove_player(player_name)
remove_player ==
    \E name \in PlayerIds :
        /\ manager_players' = ItemsDel(manager_players, name)
        /\ ret' = [over |-> FALSE, msg |-> "remove_player",
                   value |-> ItemIndex(manager_players, name) # 0]
        /\ UNCHANGED <<save_file, ManagerFrame>>

\* get_player(name).gain_experience(100) on a managed player
ManagedGainExperience ==
    \E i \in DOMAIN manager_players :
        /\ manager_players[i].player.level < MaxManagedLevel
        /\ manager_players' = [manager_players EXCEPT ![i].player =
                                  gain_experience(manager_players[i].name, @, 100)]
        /\ ret' = [over |-> FALSE, msg |-> "gain_experience"]
        /\ UNCHANGED <<save_file, ManagerFrame>>

\* PlayerManager.save_players
save_players ==
    /\ save_file' = [state |-> "json",
                     items |-> [i \in DOMAIN manager_players |->
                                   [name |-> manager_players[i].name,
                                    data |-> Player_to_dict(manager_players[i].player)]]]
    /\ ret' = [over |-> FALSE, msg |-> "save_players", value |-> TRUE]
    /\ UNCHANGED <<manager_players, ManagerFrame>>

\* the first record of the file Player.from_dict raises on, 0 if there is none
FirstBadRecord(items) ==
    IF \E i \in DOMAIN items : Player_from_dict_raises(items[i].data)
    THEN CHOOSE i \in DOMAIN items :
            /\ Player_from_dict_raises(items[i].data)
            /\ \A j \in 1..(i - 1) : ~Player_from_dict_raises(items[j].data)
    ELSE 0

\* self.players after the loop of load_players has stored the first n records
LoadedPlayers(items, n) ==
    [i \in 1..n |-> [name |-> items[i].name, player |-> Player_from_dict(items[i].data)]]

\* PlayerManager.load_players: no file, or a file json.load raises on, returns
\* False before self.players is touched; else self.players = {} and the
\* records are stored one by one until Player.from_dict raises
load_players ==
    /\ IF save_file.state # "json"
       THEN /\ ret' = [over |-> FALSE, msg |-> "load_players", value |-> FALSE]
            /\ UNCHANGED manager_players
       ELSE IF FirstBadRecord(save_file.items) # 0
       THEN /\ manager_players' = LoadedPlayers(save_file.items, FirstBadRecord(save_file.items) - 1)
            /\ ret' = [over |-> FALSE, msg |-> "load_players", value |-> FALSE]
       ELSE /\ manager_players' = LoadedPlayers(save_file.items, Len(save_file.items))
            /\ ret' = [over |-> FALSE, msg |-> "load_players", value |-> TRUE]
    /\ UNCHANGED <<save_file, ManagerFrame>>

\* the file is deleted
FileRemoved ==
    /\ save_file.state # "absent"
    /\ save_file' = NoFile
    /\ UNCHANGED <<manager_players, ret, ManagerFrame>>

\* the file is cut short or overwritten: json.load raises on it
FileDamaged ==
    /\ save_file.state = "json"
    /\ save_file' = [state |-> "unreadable", items |-> <<>>]
    /\ UNCHANGED <<manager_players, ret, ManagerFrame>>

\* the keys a stored record can be without (written by another version)
LostKeys == {"name", "level", "relationships"}

\* a stored record lacks one key
FieldLost ==
    /\ save_file.state = "json"
    /\ \E i \in DOMAIN save_file.items, key \in LostKeys :
          /\ ~Player_from_dict_raises(save_file.items[i].data)
          /\ save_file' = [save_file EXCEPT !.items[i].data =
                              [k \in DOMAIN @ \ {key} |-> @[k]]]
    /\ UNCHANGED <<manager_players, ret, ManagerFrame>>

NextPlayerManager ==
    \/ add_player
    \/ remove_player
    \/ ManagedGainExperience
    \/ save_players
    \/ load_players
    \/ FileRemoved
    \/ FileDamaged
    \/ FieldLost

SpecPlayerManager == InitPlayerManager /\ [][NextPlayerManager]_vars

\* C23: a load_players that returns False (no file, unreadable data, a stored
\* record without a field) leaves the players of the manager exactly as they
\* were before the call.
C23_FailedLoadKeepsPlayers ==
    [][(load_players /\ ~ret'.value) => manager_players' = manager_players]_vars

\* the part of C23 that holds: without a file, or with a file json.load
\* cannot read, load_players returns False and the players are as before
C23_NoFileKeepsPlayers ==
    [][(load_players /\ save_file.state # "json") =>
          (~ret'.value /\ manager_players' = manager_players)]_vars

(* ======================================================= claims C24 - C30 *)
\* the combatant of the entry at the turn pointer is at zero health
DefeatedAtPointer ==
    LET current == turn_order[current_turn + 1]
    IN IF current.type = "player" THEN ~is_alive(player[current.entity])
       ELSE ~is_alive(enemy[current.entity])

\* C24: next_turn on an active encounter in which one side has no living
\* member ends it: the flag is cleared, the summary (victory if a player
\* lives, else defeat) is returned as "over", and no turn is resolved: every
\* combatant, the turn pointer, the turn order and the round are as before.
C24_NextTurnEndsFirst ==
    [][(/\ is_active
        /\ living_players = {} \/ living_enemies = {}
        /\ next_turn) =>
           /\ ~is_active'
           /\ ret' = [over |-> TRUE,
                      msg |-> IF living_players # {} THEN "Victory!" ELSE "Defeat!"]
           /\ combat_log' = Append(combat_log, "end")
           /\ UNCHANGED <<players, enemies, player, enemy, initiative_order,
                          turn_order, current_turn, round_number>>]_vars

\* an encounter still active in a later round, in the middle of the turn
\* order, after its last player fell while an enemy lives
C24_Witness ==
    /\ is_active
    /\ living_players = {}
    /\ living_enemies # {}
    /\ current_turn > 0
    /\ round_number > 1

\* the same after the last enemy fell
C24_VictoryReached ==
    /\ is_active
    /\ living_enemies = {}
    /\ living_players # {}
    /\ current_turn > 0

\* next_turn is about to resolve the entry at the turn pointer
TurnToResolve ==
    /\ is_active
    /\ living_players # {}
    /\ living_enemies # {}
    /\ current_turn < Len(turn_order)

\* C25: when next_turn reaches the entry of a defeated combatant, enemy or
\* player, it skips the turn with the "already defeated" message: every
\* combatant is as before and the turn pointer is one position on.
C25_DefeatedTurnSkipped ==
    (TurnToResolve /\ DefeatedAtPointer) =>
        ~ENABLED (/\ next_turn
                  /\ ~(/\ ret'.msg = "already defeated"
                       /\ player' = player
                       /\ enemy' = enemy
                       /\ current_turn' = (current_turn + 1) % Len(turn_order)))

\* the part of C25 that holds: the entry of a defeated enemy is skipped with
\* the message, and the entry of a defeated player is passed over without
\* one; in both cases no combatant changes and the pointer is one position on
C25_DefeatedEnemySkipped ==
    (TurnToResolve /\ DefeatedAtPointer) =>
        ~ENABLED (/\ next_turn
                  /\ ~(/\ ret'.msg = (IF turn_order[current_turn + 1].type = "enemy"
                                      THEN "already defeated" ELSE "")
                       /\ player' = player
                       /\ enemy' = enemy
                       /\ current_turn' = (current_turn + 1) % Len(turn_order)))

\* what C26 says of the turn of the living enemy e: hit is the set of the
\* players the step changed
EnemyTurnRule(e) ==
    LET hit == {p \in PlayerIds : player'[p] # player[p]}
    IN /\ Cardinality(hit) <= 1
       /\ \A p \in hit :
             /\ p \in living_players
             /\ player'[p].health < player[p].health
             /\ player'[p] = [player[p] EXCEPT !.health = player'[p].health]
       /\ ret'.msg \in {"enemy attacks", "enemy uses damage ability"} => Cardinality(hit) = 1
       /\ \A o \in EnemyIds \ {e} : enemy'[o] = enemy[o]
       /\ enemy'[e].health >= enemy[e].health
       /\ enemy'[e] = [enemy[e] EXCEPT !.health = enemy'[e].health]
       /\ enemy'[e].health > enemy[e].health =>
             (ret'.msg = "enemy uses heal ability" /\ hit = {})

\* C26: on the turn of a living enemy, next_turn aims at a player who was
\* alive: an attack or a damage ability lowers the health of exactly one
\* player, who was alive before; no other player and no other enemy changes;
\* the health of the acting enemy stays or, through its heal, rises.
C26_EnemyTurnTarget ==
    [][(/\ TurnToResolve
        /\ turn_order[current_turn + 1].type = "enemy"
        /\ ~DefeatedAtPointer
        /\ next_turn) =>
           EnemyTurnRule(turn_order[current_turn + 1].entity)]_vars

\* an enemy has hit the one living player of a party whose other player had
\* fallen before
C26_Witness ==
    /\ ret.msg \in {"enemy attacks", "enemy uses damage ability"}
    /\ Len(players) = 2
    /\ player["p1"].health = 0
    /\ player["p2"].health = 1
    /\ is_active

\* an enemy below full health is about to take its turn and can heal itself
C26_HealReached ==
    /\ TurnToResolve
    /\ turn_order[current_turn + 1] = [type |-> "enemy", entity |-> "e1"]
    /\ enemy["e1"].health = 1
    /\ \E p \in Range(players) : player[p].health = 0

\* the living members of the initiative order after the step, in its order
LivingInInitiativeOrder ==
    SelectSeq(initiative_order, LAMBDA c : ~DefeatedAfter(c))

\* C27: every turn next_turn or player_action consumes moves the pointer to
\* (current_turn + 1) mod len(turn_order); when that is 0 the turn order
\* becomes the living members of the initiative order, in that order, and the
\* pointer is 0; otherwise the turn order is untouched, so a combatant that
\* fell during the round keeps its entry until the round ends.
C27_AdvanceAndRebuild ==
    [][TurnConsumed =>
          /\ current_turn' = (current_turn + 1) % Len(turn_order)
          /\ IF AtLastPosition
             THEN turn_order' = LivingInInitiativeOrder /\ current_turn' = 0
             ELSE turn_order' = turn_order /\ current_turn' = current_turn + 1
          /\ initiative_order' = initiative_order]_vars

\* in the middle of a round the turn order still lists a combatant that fell
\* in it, after an earlier round had dropped another
C27_Witness ==
    /\ is_active
    /\ current_turn > 0
    /\ round_number > 1
    /\ Len(turn_order) < Len(initiative_order)
    /\ \E i \in DOMAIN turn_order :
          IF turn_order[i].type = "player" THEN ~is_alive(player[turn_order[i].entity])
          ELSE ~is_alive(enemy[turn_order[i].entity])

\* a wrap has just rebuilt the turn order without a fallen combatant
C27_RebuildReached ==
    /\ is_active
    /\ current_turn = 0
    /\ round_number > 1
    /\ ret.msg # "Combat has begun!"
    /\ Len(turn_order) = Len(initiative_order) - 1
    /\ Len(turn_order) > 1

(* -------------------------------------------- start_combat with its rolls *)
\* the initiative of every entry of all_combatants for the d20 rolls:
\* random.randint(1, 20), plus player.speed for a player
InitiativeScores(all, roll) ==
    [i \in 1..Len(all) |-> roll[i] + (IF all[i].type = "player" THEN PlayerSpeed ELSE 0)]

\* Combat.start_combat with the rolls in view: ret.initiative is the
\* "Initiative: ..." column of the start message, in initiative order
start_combat_rolls ==
    IF players = <<>> \/ enemies = <<>>
    THEN /\ ret' = [over |-> FALSE,
                    msg |-> "Cannot start combat without both players and enemies."]
         /\ UNCHANGED <<encounter, starts>>
    ELSE LET all == AllCombatants(players, enemies)
         IN \E roll \in [1..Len(all) -> 1..D20] :
               LET score == InitiativeScores(all, roll)
               IN /\ starts' = starts + 1
                  /\ is_active' = TRUE
                  /\ round_number' = 1
                  /\ initiative_order' = SortByInitiative(all, score)
                  /\ turn_order' = SortByInitiative(all, score)
                  /\ current_turn' = 0
                  /\ combat_log' = <<"start">>
                  /\ ret' = [over |-> FALSE, msg |-> "Combat has begun!",
                             initiative |-> SortByInitiative(score, score)]
                  /\ UNCHANGED <<players, enemies, player, enemy>>

\* the Combat is started once, and ended
NextStart ==
    \/ starts = 0 /\ start_combat_rolls /\ UNCHANGED <<registry, persistence>>
    \/ end_combat /\ UNCHANGED <<starts, registry, persistence>>

SpecStart == Init /\ [][NextStart]_vars

\* the place of the combatant of entry c in the lists: players, then enemies
InsertionIndex(c) ==
    CHOOSE i \in 1..(Len(players) + Len(enemies)) : AllCombatants(players, enemies)[i] = c

\* C28: after a successful start_combat the initiative order lists every
\* combatant once, by initiative descending, a player's initiative being a
\* d20 plus speed and an enemy's a d20; combatants of equal initiative stand
\* in insertion order (players in list order, then enemies in list order);
\* the turn order equals the initiative order, the round is 1, the turn
\* pointer 0 and the encounter active.
C28_StartOrder ==
    ret.msg = "Combat has begun!" =>
        LET n == Len(players) + Len(enemies)
            s == ret.initiative
        IN /\ Len(initiative_order) = n
           /\ Len(s) = n
           /\ Range(initiative_order) = Range(AllCombatants(players, enemies))
           /\ \A k \in 1..n :
                 IF initiative_order[k].type = "player"
                 THEN s[k] \in (1 + PlayerSpeed)..(D20 + PlayerSpeed)
                 ELSE s[k] \in 1..D20
           /\ \A k \in 1..(n - 1) :
                 /\ s[k] >= s[k + 1]
                 /\ s[k] = s[k + 1] =>
                       InsertionIndex(initiative_order[k]) < InsertionIndex(initiative_order[k + 1])
           /\ turn_order = initiative_order
           /\ round_number = 1
           /\ current_turn = 0
           /\ is_active

\* a player and two enemies with the same initiative stand in insertion order
C28_Witness ==
    /\ ret.msg = "Combat has begun!"
    /\ ret.initiative = <<D20, D20, D20>>
    /\ initiative_order = AllCombatants(<<"p1">>, <<"e1", "e2">>)

\* an enemy went before the players on a higher roll, and the second player
\* before the first
C28_EnemyFirstReached ==
    /\ ret.msg = "Combat has begun!"
    /\ Len(initiative_order) = 3
    /\ initiative_order[1].type = "enemy"
    /\ initiative_order[2].entity = "p2"
    /\ ret.initiative[2] > ret.initiative[3]

\* the formula of C29: max(1, floor(raw * 100 / (100 + defense)))
FormulaDamage(raw, defense) ==
    IF (raw * 100) \div (100 + defense) < 1 THEN 1 ELSE (raw * 100) \div (100 + defense)

\* health after the formula's damage: max(0, health - actual)
FormulaHealth(health, raw, defense) ==
    IF health - FormulaDamage(raw, defense) < 0 THEN 0
    ELSE health - FormulaDamage(raw, defense)

\* C29: Player.take_damage and Enemy.take_damage resolve damage by the same
\* formula: the actual damage is max(1, floor(raw * 100 / (100 + defense)))
\* and the new health max(0, health - actual), for every raw amount, defense
\* and health; the raw damage of a basic attack is the attack times a factor
\* in [0.8, 1.2], truncated to an integer.
C29_UniformDamageFormula ==
    [][/\ ret'.msg \in {"Player.take_damage", "Enemy.attack_player"} =>
             /\ ret'.value = FormulaDamage(ret'.amount, player["p1"].defense)
             /\ player'["p1"].health =
                   FormulaHealth(player["p1"].health, ret'.amount, player["p1"].defense)
       /\ ret'.msg = "Enemy.take_damage" =>
             /\ ret'.value = FormulaDamage(ret'.amount, enemy["e1"].defense)
             /\ enemy'["e1"].health =
                   FormulaHealth(enemy["e1"].health, ret'.amount, enemy["e1"].defense)
       /\ ret'.msg = "Enemy.attack_player" =>
             /\ 10 * ret'.amount <= 12 * enemy["e1"].attack
             /\ 10 * (ret'.amount + 1) > 8 * enemy["e1"].attack]_vars

\* the part of C29 that holds: both methods return the same damage for the
\* same amount and defense, never above the formula's and at most one below
\* it, equal to it for the small amounts; the health rule and the raw damage
\* of a basic attack are as stated
C29_FormulaWithinOne ==
    [][/\ ret'.msg \in {"Player.take_damage", "Enemy.attack_player"} =>
             /\ ret'.value \in {FormulaDamage(ret'.amount, player["p1"].defense),
                                FormulaDamage(ret'.amount, player["p1"].defense) - 1}
             /\ ret'.amount <= MaxAmount =>
                   ret'.value = FormulaDamage(ret'.amount, player["p1"].defense)
             /\ player'["p1"].health =
                   (IF player["p1"].health - ret'.value < 0 THEN 0
                    ELSE player["p1"].health - ret'.value)
       /\ ret'.msg = "Enemy.take_damage" =>
             /\ ret'.value \in {FormulaDamage(ret'.amount, enemy["e1"].defense),
                                FormulaDamage(ret'.amount, enemy["e1"].defense) - 1}
             /\ ret'.amount <= MaxAmount =>
                   ret'.value = FormulaDamage(ret'.amount, enemy["e1"].defense)
             /\ enemy'["e1"].health =
                   (IF enemy["e1"].health - ret'.value < 0 THEN 0
                    ELSE enemy["e1"].health - ret'.value)
       /\ ret'.msg = "Enemy.attack_player" =>
             /\ 10 * ret'.amount <= 12 * enemy["e1"].attack
             /\ 10 * (ret'.amount + 1) > 8 * enemy["e1"].attack]_vars

\* the outcome of the turn of the living enemy e, by the kind of what it did
AbilityRule(e) ==
    /\ DOMAIN abilities(e) = {} =>
          /\ ret'.msg = "enemy attacks"
          /\ enemy' = enemy
          /\ \E t \in living_players, damage \in VariedDamage(enemy[e].attack) :
                player' = [player EXCEPT ![t].health =
                              take_damage(@, player[t].defense, damage)]
    /\ ret'.msg = "enemy uses heal ability" =>
          /\ player' = player
          /\ \E a \in DOMAIN abilities(e) :
                /\ abilities(e)[a].type = "heal"
                /\ enemy' = [enemy EXCEPT ![e].health =
                      @ + Min(IntDiv(enemy[e].max_health * abilities(e)[a].multiplier, 100),
                              enemy[e].max_health - @)]
    /\ ret'.msg = "enemy uses stun ability" =>
          /\ player' = player
          /\ enemy' = enemy
          /\ current_turn' = (current_turn + 1) % Len(turn_order)
          /\ \A p \in living_players :
                \E i \in DOMAIN turn_order' :
                    turn_order'[i] = [type |-> "player", entity |-> p]

\* C30: what an enemy's turn does, by kind: an enemy without abilities always
\* makes a regular attack; a heal raises the health of the enemy itself, and
\* nothing else, by min(floor(max_health * multiplier), max_health - health),
\* the target untouched; a stun changes no combatant, and the scheduler does
\* not skip the stunned player: the pointer moves on by one entry, every living
\* player keeps an entry, and the player at the pointer after a stun is not
\* refused the turn.
C30_AbilityByKind ==
    [][/\ (/\ TurnToResolve
           /\ turn_order[current_turn + 1].type = "enemy"
           /\ ~DefeatedAtPointer
           /\ next_turn) =>
              AbilityRule(turn_order[current_turn + 1].entity)
       /\ (/\ ret.msg = "enemy uses stun ability"
           /\ TurnToResolve
           /\ turn_order[current_turn + 1].type = "player"
           /\ player_action(turn_order[current_turn + 1].entity, "attack", 0, None)) =>
              ret'.msg \notin {"It's not your turn yet.", "Combat is not active."}]_vars

\* an enemy has stunned a player, and the entry at the pointer is that of a
\* living player
C30_Witness ==
    /\ ret.msg = "enemy uses stun ability"
    /\ TurnToResolve
    /\ turn_order[current_turn + 1].type = "player"
    /\ ~DefeatedAtPointer

\* the enemy with the heal is about to act, one below its full health, and
\* the enemy without abilities is about to act
C30_HealReached ==
    /\ TurnToResolve
    /\ turn_order[current_turn + 1] = [type |-> "enemy", entity |-> "e1"]
    /\ enemy["e1"].health = enemy["e1"].max_health - 1

C30_NoAbilitiesReached ==
    /\ TurnToResolve
    /\ turn_order[current_turn + 1] = [type |-> "enemy", entity |-> "e2"]
    /\ is_alive(enemy["e2"])

\* the heal has acted in a later round
C30_HealActed ==
    /\ ret.msg = "enemy uses heal ability"
    /\ enemy["e1"].health = enemy["e1"].max_health
    /\ round_number > 1

(* ------------------------------------------------- skills that cost mana *)
\* the mana and experience a level 2 Mage enters with, and the health of the
\* enemy: a Fireball costs 15; 50 more experience than 150 is the threshold of
\* level 2; an enemy with 10 health outlives a Fireball
DrawnMana == {0, 14, 15, 25}
DrawnExperience == {100, 150}
DrawnEnemyHealth == {2, 10}

\* the skill names player_action is called with
PaidSkillArgs == {"Basic Attack", "Fireball", "Heroic Strike"}

\* p1 as in Init, p2 a Mage who has levelled up once (Player.level_up on the
\* fixture), against e1
InitSkill ==
    /\ players = <<"p1", "p2">>
    /\ enemies = <<"e1">>
    /\ \E m \in DrawnMana, x \in DrawnExperience :
          player = [p \in PlayerIds |->
                       IF p = "p2"
                       THEN [level_up(p, NewPlayer(p)) EXCEPT !.mana = m, !.experience = x]
                       ELSE NewPlayer(p)]
    /\ \E h \in DrawnEnemyHealth :
          enemy = [e \in EnemyIds |->
                      IF e = "e1"
                      THEN [NewEnemy(e) EXCEPT !.max_health = 10, !.health = h]
                      ELSE NewEnemy(e)]
    /\ initiative_order = <<>>
    /\ turn_order = <<>>
    /\ current_turn = 0
    /\ round_number = 1
    /\ is_active = FALSE
    /\ combat_log = <<>>
    /\ ret = [over |-> FALSE, msg |-> None]
    /\ starts = 0
    /\ other_combats = NoCombats
    /\ focus = NoFocus
    /\ now = 0
    /\ manager_players = <<>>
    /\ save_file = NoFile
    /\ encounter_templates = NoTemplates
    /\ callers = NoCallers

\* player_action(player, "skill", target_index, skill_name)
SkillCall ==
    \E p \in PlayerIds, target_index \in TargetIndexes, skill_name \in PaidSkillArgs :
        player_action(p, "skill", target_index, skill_name)

NextSkill ==
    \/ starts = 0 /\ start_combat /\ UNCHANGED <<registry, persistence>>
    \/ next_turn /\ UNCHANGED <<starts, registry, persistence>>
    \/ SkillCall /\ UNCHANGED <<starts, registry, persistence>>

SpecSkill == InitSkill /\ [][NextSkill]_vars

\* the player at the pointer can pay for the skill s and aims it at a target
CanPaySkill(p, s, ti) ==
    /\ TurnToResolve
    /\ turn_order[current_turn + 1] = [type |-> "player", entity |-> p]
    /\ 0 <= ti /\ ti < Len(enemies)
    /\ s \in SkillNames(player_class(p), player[p].level)
    /\ player[p].mana >= AllSkills(player_class(p))[s].mana_cost

\* the target after raw damage int(attack * damage_multiplier) went through
\* the damage formula, every other enemy as before
SkillHits(p, s, ti) ==
    LET t == enemies[ti + 1]
        raw == (player[p].attack * AllSkills(player_class(p))[s].damage_multiplier) \div 100
    IN enemy' = [enemy EXCEPT ![t].health = FormulaHealth(@, raw, enemy[t].defense)]

\* C31: a skill the player has and can pay for leaves the mana at exactly
\* (mana before - mana_cost) and puts raw damage int(attack *
\* damage_multiplier), without variation, through the damage formula; and no
\* player's mana is ever negative.
C31_SkillSpendsMana ==
    /\ \A p \in PlayerIds : player[p].mana >= 0
    /\ \A p \in PlayerIds, s \in PaidSkillArgs, ti \in TargetIndexes :
          CanPaySkill(p, s, ti) =>
             ~ENABLED (/\ player_action(p, "skill", ti, s)
                       /\ ~(/\ player'[p].mana =
                                  player[p].mana - AllSkills(player_class(p))[s].mana_cost
                            /\ SkillHits(p, s, ti)))

\* C31 as the code has it: the mana is (mana before - mana_cost) unless the
\* skill defeated its target and the experience of the defeat took the player
\* to the next level, where level_up refills the mana to the new max_mana; the
\* damage and the sign of the mana are as stated.
C31_SkillSpendsManaUnlessLevelUp ==
    /\ \A p \in PlayerIds : player[p].mana >= 0
    /\ \A p \in PlayerIds, s \in PaidSkillArgs, ti \in TargetIndexes :
          CanPaySkill(p, s, ti) =>
             ~ENABLED (/\ player_action(p, "skill", ti, s)
                       /\ ~(/\ IF player'[p].level = player[p].level
                               THEN player'[p].mana =
                                       player[p].mana - AllSkills(player_class(p))[s].mana_cost
                               ELSE /\ player'[p].level = player[p].level + 1
                                    /\ enemy'[enemies[ti + 1]].health = 0
                                    /\ player'[p].mana = player'[p].max_mana
                            /\ SkillHits(p, s, ti)))

\* the Mage is about to act with the mana for a Fireball, against an enemy
\* that will outlive it
C31_Witness ==
    /\ CanPaySkill("p2", "Fireball", 0)
    /\ enemy["e1"].health = 10

\* a Fireball has been paid for: 10 of 25 mana are left, the enemy is hurt
C31_FireballPaid ==
    /\ ret.msg = "You use the skill."
    /\ player["p2"].mana = 10
    /\ enemy["e1"].health \in 1..9

\* a Fireball defeated the enemy and took the Mage to level 3
C31_LevelUpReached ==
    /\ player["p2"].level = 3
    /\ player["p2"].mana = player["p2"].max_mana
    /\ enemy["e1"].health = 0

(* ---------------------------------------------------------- C32: rewards *)
\* items is the items of some entries of the table, each entry at most once,
\* in table order
DroppedFrom(items, drops) ==
    \E S \in SUBSET DOMAIN drops :
        /\ Len(items) = Cardinality(S)
        /\ \E f \in [1..Len(items) -> S] :
              /\ \A i, j \in 1..Len(items) : i < j => f[i] < f[j]
              /\ \A i \in 1..Len(items) : items[i] = drops[f[i]].item

\* p has the rewards of the defeated enemy t: its gold, its experience and,
\* at the end of the inventory, items of its table
Rewarded(p, t) ==
    /\ ~is_alive(enemy'[t])
    /\ player'[p].gold = player[p].gold + gold_reward(t)
    /\ player'[p].experience = player[p].experience + experience_reward(t)
    /\ \E n \in 0..Len(possible_drops(t)) :
          /\ Len(player'[p].inventory) = Len(player[p].inventory) + n
          /\ SubSeq(player'[p].inventory, 1, Len(player[p].inventory))
                = player[p].inventory
          /\ DroppedFrom(SubSeq(player'[p].inventory,
                                Len(player[p].inventory) + 1,
                                Len(player[p].inventory) + n),
                         possible_drops(t))
          /\ item_drop_chance(t) = 0 => n = 0

\* what a call of player_action by p may do to gold, experience and
\* inventories: an enemy that falls rewards p, and whatever happens no other
\* player changes and p gains nothing but the rewards of one defeated enemy
RewardRule(p) ==
    LET fallen == {t \in Range(enemies) : is_alive(enemy[t]) /\ ~is_alive(enemy'[t])}
    IN /\ Cardinality(fallen) <= 1
       /\ \A q \in PlayerIds \ {p} : player'[q] = player[q]
       /\ \A t \in fallen : Rewarded(p, t)
       /\ \/ /\ player'[p].gold = player[p].gold
             /\ player'[p].experience = player[p].experience
             /\ player'[p].inventory = player[p].inventory
          \/ \E t \in Range(enemies) : Rewarded(p, t)

\* C32: when a player's action defeats an enemy, its experience_reward and
\* gold_reward go to the acting player and to nobody else: every other player
\* is as before; items are added to the acting player's inventory only behind
\* the item_drop_chance roll (none when the chance is 0), and every
\* possible_drops entry at most once for the defeat.
\* (a step that changes no player and no enemy satisfies RewardRule of every
\* player, so only the steps that change a combatant are examined)
C32_RewardsToActingPlayer ==
    [][(player' # player \/ enemy' # enemy) =>
          \A p \in PlayerIds :
              (\E target_index \in TargetIndexes :
                  \/ \E action \in Actions \ {"skill"} :
                        player_action(p, action, target_index, None)
                  \/ \E skill_name \in SkillArgs :
                        player_action(p, "skill", target_index, skill_name))
              => RewardRule(p)]_vars

\* the second player defeated the wolf and took its pelt, the first has
\* gained nothing
C32_Witness ==
    /\ Len(players) = 2
    /\ ~is_alive(enemy["e1"])
    /\ player["p2"].inventory = <<"Wolf Pelt">>
    /\ player["p2"].gold = gold_reward("e1")
    /\ player["p2"].experience = experience_reward("e1")
    /\ player["p1"].gold = 0 /\ player["p1"].experience = 0 /\ player["p1"].inventory = <<>>

\* the enemy whose item_drop_chance is 0 fell and left nothing but gold
C32_NoDropReached ==
    /\ ~is_alive(enemy["e2"])
    /\ Len(enemies) = 2
    /\ player["p1"].gold >= gold_reward("e2")
    /\ "Bone" \notin Range(player["p1"].inventory)

(* ---------------------------------------------------- C33: type scaling *)
\* the five stats of b are those of a under the multipliers of the type:
\* Elite 1.5, 1.3, 1.3, 2, 2 and Boss 3, 2, 1.5, 5, 5, truncated
ScaledAgain(a, b, enemy_type) ==
    IF enemy_type = "Elite"
    THEN /\ b.max_health = (a.max_health * 3) \div 2
         /\ b.attack = (a.attack * 13) \div 10
         /\ b.defense = (a.defense * 13) \div 10
         /\ b.experience_reward = 2 * a.experience_reward
         /\ b.gold_reward = 2 * a.gold_reward
    ELSE /\ b.max_health = 3 * a.max_health
         /\ b.attack = 2 * a.attack
         /\ b.defense = (a.defense * 3) \div 2
         /\ b.experience_reward = 5 * a.experience_reward
         /\ b.gold_reward = 5 * a.gold_reward

\* C33: set_enemy_type is not idempotent: "Elite" or "Boss" applied to an
\* enemy that is already Elite or Boss scales max_health, attack, defense,
\* experience_reward and gold_reward of the scaled enemy again, to larger
\* values; a type name outside {Normal, Elite, Boss} leaves every field of the
\* enemy as it was.
C33_TypeScalingCompounds ==
    [][ret'.msg = "Enemy.set_enemy_type" =>
          /\ (ret'.enemy_type \in {"Elite", "Boss"}
              /\ enemy["e1"].enemy_type \in {"Elite", "Boss"}) =>
                 /\ ScaledAgain(enemy["e1"], enemy'["e1"], ret'.enemy_type)
                 /\ enemy'["e1"].max_health > enemy["e1"].max_health
                 /\ enemy'["e1"].attack > enemy["e1"].attack
                 /\ enemy'["e1"].experience_reward > enemy["e1"].experience_reward
                 /\ enemy'["e1"].gold_reward > enemy["e1"].gold_reward
                 /\ enemy'["e1"].enemy_type = ret'.enemy_type
          /\ ret'.enemy_type \notin {"Normal", "Elite", "Boss"} =>
                 enemy'["e1"] = enemy["e1"]]_vars

\* a level 1 Bandit (30 health) made Elite twice: 45, then 67
C33_Witness ==
    /\ ret.msg = "Enemy.set_enemy_type"
    /\ ret.enemy_type = "Elite"
    /\ enemy["e1"].name = "Bandit"
    /\ enemy["e1"].level = 1
    /\ enemy["e1"].max_health = 67
    /\ enemy["e1"].experience_reward = 4 * (20 + 15)

\* a type name that is not a type came in and the enemy, hurt before, is as
\* it was
C33_UnknownTypeReached ==
    /\ ret.msg = "Enemy.set_enemy_type"
    /\ ret.enemy_type = "Legendary"
    /\ enemy["e1"].health < enemy["e1"].max_health
    /\ enemy["e1"].enemy_type = "Normal"

(* ------------------------------------------------------ enemy generators *)
\* the player levels the generators are called with
MaxPlayerLevel == 2

\* d.get(key, default) on a dict
DictGet(d, key, default) == IF key \in DOMAIN d THEN d[key] ELSE default

\* create_enemy_from_template reaches "return Enemy(name, level)", where no
\* name is bound: NameError
create_enemy_from_template_raises(template) == template \notin Templates

\* enemy_templates.get(location_type, enemy_templates["Any"]): three rows of
\* the table, the last for "Any" and for every unknown location
RandomTemplates(location_type) ==
    CASE location_type = "Forest" -> {"Wolf", "Goblin", "Bear"}
      [] location_type = "Cave" -> {"Bat", "Skeleton", "Troll"}
      [] OTHER -> {"Wolf", "Goblin", "Skeleton", "Bandit", "Slime"}

\* create_random_enemy up to "Random chance for an elite enemy": the base
\* enemy, customised by template
RandomBase(template, level) ==
    LET e == Enemy_init(template, level)
    IN CASE template = "Wolf" ->
              add_drop([e EXCEPT !.attack_messages =
                            <<"lunges at you with sharp teeth", "claws at you viciously",
                              "bites at your leg", "howls and charges at you">>],
                       Material("Wolf Pelt", 5 + level), 70)
         [] template = "Goblin" ->
              add_ability([e EXCEPT !.description =
                               <<"A small, green-skinned creature with a mischievous grin.">>,
                                    !.attack_messages =
                               <<"swings a crude dagger at you", "throws a small rock at your head",
                                 "stabs at you with a sharpened stick", "jumps at you with its claws out">>],
                          "Sneak Attack", "damage", 150, 20)
         [] template = "Skeleton" ->
              add_weakness(
                add_resistance([e EXCEPT !.description =
                                    <<"An animated skeleton, its bones clacking as it moves.">>],
                               "pierce", 30),
                "crush", 50)
         [] template = "Bandit" ->
              add_drop(
                add_ability([e EXCEPT !.description =
                                 <<"A rough-looking human wielding a weapon and looking for trouble.">>],
                            "Disarm", "stun", 0, 20),
                [name |-> "Stolen Goods", type |-> "Miscellaneous", value |-> 10 + level * 3], 60)
         [] template = "Slime" ->
              add_weakness(
                add_resistance([e EXCEPT !.description =
                                    <<"A gelatinous blob that oozes across the ground.">>,
                                         !.attack = 4 + level * 2,
                                         !.defense = 2 + level,
                                         !.attack_messages =
                                    <<"engulfs your foot", "sprays acidic goo at you",
                                      "stretches and slams into you", "attempts to absorb your weapon">>],
                               "pierce", 50),
                "fire", 30)
         [] OTHER -> e

\* enemy.set_enemy_type("Elite"); enemy.name = f"Elite {enemy.name}"
MadeElite(e) == [set_enemy_type(e, "Elite") EXCEPT !.name = "Elite " \o e.name]

\* EnemyFactory.create_random_enemy: the enemies it can return
create_random_enemy(level, location_type) ==
    UNION { {RandomBase(template, level), MadeElite(RandomBase(template, level))} :
               template \in RandomTemplates(location_type) }

\* max(enemies, key=lambda e: e.level): the index of the first enemy of the
\* highest level
Strongest(es) ==
    CHOOSE i \in DOMAIN es :
        /\ \A j \in DOMAIN es : es[j].level <= es[i].level
        /\ \A j \in 1..(i - 1) : es[j].level < es[i].level

\* max(1, level)
AtLeastOne(level) == IF level < 1 THEN 1 ELSE level

\* CombatSystem.create_random_encounter: the lists it can return
create_random_encounter(location_type, player_level, num_enemies) ==
    LET made == UNION { create_random_enemy(AtLeastOne(player_level + adj), location_type) :
                           adj \in {-1, 0, 1} }
        lists == UNION { [1..n -> made] : n \in {num_enemies} }
    IN IF num_enemies > 1
       THEN lists \cup { [es EXCEPT ![Strongest(es)] = MadeElite(@)] : es \in lists }
       ELSE lists

\* the enemy create_encounter_from_template makes of one template entry
EntryLevel(tpl, enemy_data, player_level) ==
    AtLeastOne(DictGet(enemy_data, "level", 1) + (player_level - tpl.min_level))

EntryRaises(enemy_data) ==
    /\ DictGet(enemy_data, "template", None) # None
    /\ create_enemy_from_template_raises(enemy_data["template"])

EntryEnemy(tpl, enemy_data, player_level) ==
    LET enemy_level == EntryLevel(tpl, enemy_data, player_level)
        made == IF DictGet(enemy_data, "template", None) # None
                THEN create_enemy_from_template(enemy_data["template"], enemy_level)
                ELSE Enemy_init(DictGet(enemy_data, "name", "Unknown"), enemy_level)
    IN IF DictGet(enemy_data, "type", None) # None
       THEN set_enemy_type(made, enemy_data["type"])
       ELSE made

\* CombatSystem.create_encounter_from_template: an entry whose template is
\* unknown raises; otherwise the list of enemies, [] for an unknown name
create_encounter_from_template_raises(template_name) ==
    /\ template_name \in DOMAIN encounter_templates
    /\ \E i \in DOMAIN encounter_templates[template_name].enemies :
          EntryRaises(encounter_templates[template_name].enemies[i])

create_encounter_from_template(template_name, player_level) ==
    IF template_name \notin DOMAIN encounter_templates THEN <<>>
    ELSE LET tpl == encounter_templates[template_name]
         IN [i \in DOMAIN tpl.enemies |-> EntryEnemy(tpl, tpl.enemies[i], player_level)]

\* the "enemies" lists add_encounter_template is called with
EncounterLists ==
    { << [name |-> "Guard"] >>,
      << [name |-> "Guard", type |-> "Elite", level |-> 2] >>,
      << [template |-> "Wolf", type |-> "Elite"], [template |-> "Goblin"] >>,
      << [template |-> "Dragon"] >>,
      << [template |-> "Dragon", type |-> "Boss"] >>,
      << [template |-> "Wolf"], [template |-> "Yeti"] >> }

TemplateNames == {"Ambush", "Lair"}
LocationArgs == {"Forest", "Moon"}
GeneratorFrame == <<encounter, starts, other_combats, focus, now, callers, persistence>>

\* a CombatSystem without encounter templates
InitGenerators ==
    /\ players = <<>>
    /\ enemies = <<>>
    /\ player = [p \in PlayerIds |-> NewPlayer(p)]
    /\ enemy = [e \in EnemyIds |-> NewEnemy(e)]
    /\ initiative_order = <<>>
    /\ turn_order = <<>>
    /\ current_turn = 0
    /\ round_number = 1
    /\ is_active = FALSE
    /\ combat_log = <<>>
    /\ ret = [over |-> FALSE, msg |-> None]
    /\ starts = 0
    /\ other_combats = NoCombats
    /\ focus = NoFocus
    /\ now = 0
    /\ manager_players = <<>>
    /\ save_file = NoFile
    /\ encounter_templates = NoTemplates
    /\ callers = NoCallers

\* what a generator returned: the call, its arguments, whether it raised
\* NameError, and the list of enemies
Returned(call, args, raised, value) ==
    [over |-> FALSE, msg |-> call, args |-> args, raised |-> raised, value |-> value]

\* combat_system.add_encounter_template(name, enemies, min_level)
add_encounter_template ==
    \E name \in {"Ambush"}, es \in EncounterLists, min_level \in 1..MaxPlayerLevel :
        /\ encounter_templates' =
              DictSet(encounter_templates, name, [enemies |-> es, min_level |-> min_level])
        /\ ret' = Returned("add_encounter_template", <<name>>, FALSE, <<>>)
        /\ UNCHANGED GeneratorFrame

\* EnemyFactory.create_enemy_from_template(template, level)
CreateEnemyFromTemplate ==
    \E template \in Templates \cup {"Yeti"}, level \in 1..MaxPlayerLevel :
        /\ ret' = IF create_enemy_from_template_raises(template)
                  THEN Returned("create_enemy_from_template", <<template, level>>, TRUE, <<>>)
                  ELSE Returned("create_enemy_from_template", <<template, level>>, FALSE,
                                << create_enemy_from_template(template, level) >>)
        /\ UNCHANGED <<GeneratorFrame, encounter_templates>>

\* EnemyFactory.create_random_enemy(level, location_type)
CreateRandomEnemy ==
    \E level \in 1..MaxPlayerLevel, location_type \in LocationArgs :
        \E made \in create_random_enemy(level, location_type) :
            /\ ret' = Returned("create_random_enemy", <<level, location_type>>, FALSE, <<made>>)
            /\ UNCHANGED <<GeneratorFrame, encounter_templates>>

\* combat_system.create_random_encounter(location_type, player_level, num_enemies)
CreateRandomEncounter ==
    \E location_type \in {"Forest"}, player_level \in {1}, num_enemies \in 1..2 :
        \E es \in create_random_encounter(location_type, player_level, num_enemies) :
            /\ ret' = Returned("create_random_encounter",
                               <<location_type, player_level, num_enemies>>, FALSE, es)
            /\ UNCHANGED <<GeneratorFrame, encounter_templates>>

\* combat_system.create_encounter_from_template(template_name, player_level)
CreateEncounterFromTemplate ==
    \E template_name \in TemplateNames, player_level \in 1..MaxPlayerLevel :
        /\ ret' = IF create_encounter_from_template_raises(template_name)
                  THEN Returned("create_encounter_from_template",
                                <<template_name, player_level>>, TRUE, <<>>)
                  ELSE Returned("create_encounter_from_template",
                                <<template_name, player_level>>, FALSE,
                                create_encounter_from_template(template_name, player_level))
        /\ UNCHANGED <<GeneratorFrame, encounter_templates>>

NextGenerators ==
    \/ add_encounter_template
    \/ CreateEnemyFromTemplate
    \/ CreateRandomEnemy
    \/ CreateRandomEncounter
    \/ CreateEncounterFromTemplate

SpecGenerators == InitGenerators /\ [][NextGenerators]_vars

\* the stats no plain template but the Troll's sets: max_health,
\* experience_reward, gold_reward
ScaledStats(e) == <<e.max_health, e.experience_reward, e.gold_reward>>

\* those stats as the constructors make them at this level, before any type
\* scaling: Enemy.__init__, and the Troll template
UnscaledStats(level) ==
    { <<20 + level * 10, 20 + level * 15, 5 + level * 3>>,
      <<40 + level * 15, 35 + level * 20, 15 + level * 5>> }

\* the Elite or Boss scaling was applied to e at most once
ScaledAtMostOnce(e) ==
    \E b \in UnscaledStats(e.level) :
        ScaledStats(e) \in { b,
                             <<(b[1] * 3) \div 2, 2 * b[2], 2 * b[3]>>,
                             <<3 * b[1], 5 * b[2], 5 * b[3]>> }

Generators ==
    {"create_enemy_from_template", "create_random_enemy",
     "create_random_encounter", "create_encounter_from_template"}

\* C34: every enemy the generators return (create_enemy_from_template,
\* create_random_enemy, create_random_encounter,
\* create_encounter_from_template) has had the Elite or Boss scaling applied
\* at most once.
C34_ScaledOnceAtCreation ==
    ret.msg \in Generators =>
        \A i \in DOMAIN ret.value : ScaledAtMostOnce(ret.value[i])

\* the part of C34 that holds: the two factory methods scale at most once
C34_FactoryScalesOnce ==
    ret.msg \in {"create_enemy_from_template", "create_random_enemy"} =>
        \A i \in DOMAIN ret.value : ScaledAtMostOnce(ret.value[i])

\* C35: create_enemy_from_template with a template name outside Wolf, Goblin,
\* Skeleton, Troll, Dragon does not fail: it returns a basic enemy of the
\* requested level; so create_encounter_from_template returns one enemy per
\* entry of the template, whatever the entries' template names.
C35_UnknownTemplateDefaults ==
    /\ ret.msg = "create_enemy_from_template" =>
          /\ ~ret.raised
          /\ Len(ret.value) = 1
          /\ ret.value[1].level = ret.args[2]
          /\ ret.args[1] \notin Templates =>
                ScaledStats(ret.value[1]) =
                    <<20 + ret.args[2] * 10, 20 + ret.args[2] * 15, 5 + ret.args[2] * 3>>
    /\ (ret.msg = "create_encounter_from_template"
        /\ ret.args[1] \in DOMAIN encounter_templates) =>
          /\ ~ret.raised
          /\ Len(ret.value) = Len(encounter_templates[ret.args[1]].enemies)

\* the part of C35 that holds: with known template names the call returns one
\* enemy per entry, each of the level asked for
C35_KnownTemplatesReturn ==
    /\ (ret.msg = "create_enemy_from_template" /\ ret.args[1] \in Templates) =>
          /\ ~ret.raised
          /\ Len(ret.value) = 1
          /\ ret.value[1].level = ret.args[2]
    /\ (ret.msg = "create_encounter_from_template"
        /\ ret.args[1] \in DOMAIN encounter_templates
        /\ \A i \in DOMAIN encounter_templates[ret.args[1]].enemies :
              ~EntryRaises(encounter_templates[ret.args[1]].enemies[i])) =>
          /\ ~ret.raised
          /\ Len(ret.value) = Len(encounter_templates[ret.args[1]].enemies)

(* ------------------------------------------------------------ C36 .. C38 *)
\* any call of player_action by p
ActionBy(p) ==
    \E target_index \in TargetIndexes :
        \/ \E action \in Actions \ {"skill"} :
              player_action(p, action, target_index, None)
        \/ \E skill_name \in SkillArgs :
              player_action(p, "skill", target_index, skill_name)

\* C36: only a living player acts: a player_action call by a player of the
\* encounter whose health is 0 changes no enemy's health and gives that
\* player no experience, no gold and no item.
C36_OnlyLivingPlayersAct ==
    \A p \in Range(players) :
        ~is_alive(player[p]) =>
            ~ENABLED (/\ ActionBy(p)
                      /\ ~(/\ \A e \in EnemyIds : enemy'[e].health = enemy[e].health
                           /\ player'[p].experience = player[p].experience
                           /\ player'[p].gold = player[p].gold
                           /\ player'[p].inventory = player[p].inventory))

\* the part of C36 that holds: a fallen player whose entry is not at the
\* pointer, or whose encounter has ended, changes nothing by calling
C36_FallenPlayerOffTurn ==
    \A p \in Range(players) :
        (/\ ~is_alive(player[p])
         /\ \/ ~is_active
            \/ current_turn >= Len(turn_order)
            \/ turn_order[current_turn + 1] # [type |-> "player", entity |-> p]) =>
            ~ENABLED (/\ ActionBy(p)
                      /\ ~(enemy' = enemy /\ player' = player))

\* a fallen player stands at the pointer of an active encounter in which
\* another player and an enemy live
C36_FallenAtPointer ==
    /\ TurnToResolve
    /\ turn_order[current_turn + 1].type = "player"
    /\ DefeatedAtPointer

\* C37: end_combat reports "Victory! All enemies have been defeated." only
\* when every enemy is defeated: ending an encounter in which both sides have
\* living members gives no victory summary.
C37_VictoryOnlyWhenEnemiesDown ==
    (is_active /\ living_enemies # {}) =>
        ~ENABLED (end_combat /\ ret'.msg = "Victory!")

\* the part of C37 that holds: end_combat reports a victory exactly when a
\* player lives, and a defeat when none does, whatever the enemies' state
C37_VictoryWhenAPlayerLives ==
    is_active =>
        ~ENABLED (/\ end_combat
                  /\ ~(/\ ret'.over
                       /\ ~is_active'
                       /\ ret'.msg = IF living_players # {} THEN "Victory!" ELSE "Defeat!"))

\* an encounter under way, after a turn, with both sides alive
C37_BothSidesAlive ==
    /\ TurnToResolve
    /\ Len(combat_log) > 1

\* C38: next_turn called while the entry at the pointer is that of a living
\* player consumes the player's turn without an action: the pointer moves on
\* by one, with the round counted and the turn order rebuilt on the wrap,
\* and no combatant's health, mana, gold or inventory changes.
C38_NextTurnConsumesPlayerTurn ==
    [][(/\ TurnToResolve
        /\ turn_order[current_turn + 1].type = "player"
        /\ ~DefeatedAtPointer
        /\ next_turn) =>
           /\ player' = player
           /\ enemy' = enemy
           /\ current_turn' = (current_turn + 1) % Len(turn_order)
           /\ IF current_turn + 1 = Len(turn_order)
              THEN /\ round_number' = round_number + 1
                   /\ turn_order' =
                         SelectSeq(initiative_order,
                             LAMBDA c : IF c.type = "player"
                                        THEN is_alive(player[c.entity])
                                        ELSE is_alive(enemy[c.entity]))
              ELSE /\ round_number' = round_number
                   /\ turn_order' = turn_order
           /\ is_active' = is_active
           /\ ~ret'.over]_vars

\* a living player stands at the last position of the turn order, in which a
\* fallen combatant still has its entry
C38_Witness ==
    /\ TurnToResolve
    /\ turn_order[current_turn + 1].type = "player"
    /\ ~DefeatedAtPointer
    /\ current_turn + 1 = Len(turn_order)
    /\ \E i \in DOMAIN turn_order :
          IF turn_order[i].type = "player"
          THEN ~is_alive(player[turn_order[i].entity])
          ELSE ~is_alive(enemy[turn_order[i].entity])

\* next_turn has passed over the turn of a living player in the middle of a
\* round
C38_PlayerTurnPassed ==
    /\ ret = [over |-> FALSE, msg |-> ""]
    /\ is_active
    /\ current_turn > 0
    /\ turn_order[current_turn].type = "player"
    /\ is_alive(player[turn_order[current_turn].entity])

(* -------------------------------------------- calls that are not serialized *)
\* Two callers, c1 and c2, call next_turn and player_action on one Combat.
\* A call is taken statement group by statement group: it reads the entry at
\* the pointer into its local "current", resolves that entry, and advances
\* the pointer. callers.serialized says whether the callers hold to "no
\* concurrent calls into the same encounter": a call then begins only when no
\* other call is under way.

\* a caller may begin a call
CanEnter_unserialized(c) == TRUE

CanEnter(c) ==
    callers.serialized => \A o \in CallerIds \ {c} : callers.pc[o] = "idle"

\* the calls under way
UnderWay == {c \in CallerIds : callers.pc[c] # "idle"}

InitCallers ==
    /\ \E enc \in Encounters : players = enc[1] /\ enemies = enc[2]
    /\ player = [p \in PlayerIds |-> NewPlayer(p)]
    /\ enemy = [e \in EnemyIds |-> NewEnemy(e)]
    /\ initiative_order = <<>>
    /\ turn_order = <<>>
    /\ current_turn = 0
    /\ round_number = 1
    /\ is_active = FALSE
    /\ combat_log = <<>>
    /\ ret = [over |-> FALSE, msg |-> None]
    /\ starts = 0
    /\ other_combats = NoCombats
    /\ focus = NoFocus
    /\ now = 0
    /\ manager_players = <<>>
    /\ save_file = NoFile
    /\ encounter_templates = NoTemplates
    /\ \E serialized \in BOOLEAN : callers = [NoCallers EXCEPT !.serialized = serialized]

CallersFrame == <<starts, other_combats, focus, now, encounter_templates, persistence>>

\* next_turn up to "current = self.turn_order[self.current_turn]"
BeginNextTurn(c) ==
    /\ callers.pc[c] = "idle"
    /\ CanEnter(c)
    /\ is_active
    /\ ~check_combat_end(player, enemy, is_active)
    /\ current_turn < Len(turn_order)
    /\ Len(combat_log) + Cardinality(UnderWay) < MaxLog
    /\ callers' = [callers EXCEPT !.pc[c] = "read",
                                  !.call[c] = "next_turn",
                                  !.current[c] = turn_order[current_turn + 1],
                                  !.slot[c] = <<round_number, current_turn>>]
    /\ UNCHANGED <<encounter, ret, CallersFrame>>

\* player_action(player, "attack", 0) up to the turn check: the call of a
\* player whose entry is not at the pointer returns at once
BeginPlayerAction(c) ==
    \E p \in Range(players) :
        /\ callers.pc[c] = "idle"
        /\ CanEnter(c)
        /\ is_active
        /\ current_turn < Len(turn_order)
        /\ Len(combat_log) + Cardinality(UnderWay) < MaxLog
        /\ IF is_players_turn(turn_order[current_turn + 1], p)
           THEN /\ callers' = [callers EXCEPT !.pc[c] = "read",
                                              !.call[c] = "player_action",
                                              !.current[c] = turn_order[current_turn + 1],
                                              !.slot[c] = <<round_number, current_turn>>]
                /\ UNCHANGED ret
           ELSE /\ ret' = [over |-> FALSE, msg |-> "It's not your turn yet."]
                /\ UNCHANGED callers
        /\ UNCHANGED <<encounter, CallersFrame>>

\* what resolving the entry "current" does to players and enemies: the
\* enemy's turn of next_turn, or the attack of player_action on enemies[0]
Resolutions(call, current) ==
    IF call = "next_turn"
    THEN IF current.type = "enemy" /\ is_alive(enemy[current.entity]) /\ alive_players # {}
         THEN { <<[player EXCEPT ![t].health = take_damage(@, player[t].defense, damage)], enemy>> :
                   t \in alive_players, damage \in VariedDamage(enemy[current.entity].attack) }
              \cup
              { <<[player EXCEPT ![t].health =
                      take_damage(@, player[t].defense,
                          IntDiv(enemy[current.entity].attack
                                 * abilities(current.entity)[a].multiplier, 100))], enemy>> :
                   t \in alive_players,
                   a \in {b \in DOMAIN abilities(current.entity) :
                             abilities(current.entity)[b].type = "damage"} }
              \cup
              { <<player, [enemy EXCEPT ![current.entity].health =
                      Min(@ + IntDiv(enemy[current.entity].max_health
                                     * abilities(current.entity)[a].multiplier, 100),
                          enemy[current.entity].max_health)]>> :
                   a \in {b \in DOMAIN abilities(current.entity) :
                             abilities(current.entity)[b].type = "heal"} }
              \cup
              { <<player, enemy>> :
                   a \in {b \in DOMAIN abilities(current.entity) :
                             abilities(current.entity)[b].type = "stun"} }
         ELSE { <<player, enemy>> }
    ELSE LET p == current.entity
             t == enemies[1]
         IN UNION { LET en == [enemy EXCEPT ![t].health =
                                  take_damage(@, enemy[t].defense, damage)]
                    IN IF ~is_alive(en[t])
                       THEN { <<[player EXCEPT ![p] = r], en>> :
                                 r \in {g \in GrantRewards(p, player[p], t) : g.gold <= MaxGold} }
                       ELSE { <<player, en>> } :
                    damage \in VariedDamage(player[p].attack) }

\* the entry the caller read is resolved
ResolveEntry(c) ==
    /\ callers.pc[c] = "read"
    /\ \E r \in Resolutions(callers.call[c], callers.current[c]) :
          /\ player' = r[1]
          /\ enemy' = r[2]
    /\ callers' = [callers EXCEPT !.pc[c] = "resolved",
                                  !.resolved = @ \cup {callers.slot[c]},
                                  !.twice = @ \/ callers.slot[c] \in callers.resolved]
    /\ UNCHANGED <<players, enemies, initiative_order, turn_order, current_turn,
                   round_number, is_active, combat_log, ret, CallersFrame>>

\* "Advance to the next turn" to the return, of either method; the modulus
\* raises ZeroDivisionError when another call has emptied the turn order
AdvancePointer(c) ==
    /\ callers.pc[c] = "resolved"
    /\ IF Len(turn_order) = 0
       THEN /\ ret' = [over |-> FALSE, msg |-> "ZeroDivisionError"]
            /\ callers' = [callers EXCEPT !.pc[c] = "idle"]
            /\ UNCHANGED encounter
       ELSE /\ IF (current_turn + 1) % Len(turn_order) = 0
               THEN /\ round_number' = round_number + 1
                    /\ turn_order' = rebuild_turn_order(player, enemy)
                    /\ current_turn' = 0
               ELSE /\ current_turn' = (current_turn + 1) % Len(turn_order)
                    /\ UNCHANGED <<round_number, turn_order>>
            /\ combat_log' = Append(combat_log, "turn")
            /\ ret' = [over |-> check_combat_end(player, enemy, is_active), msg |-> callers.call[c]]
            /\ callers' = [callers EXCEPT !.pc[c] = "idle",
                                          !.advanced = @ \cup {callers.slot[c]},
                                          !.twice = @ \/ callers.slot[c] \in callers.advanced]
            /\ UNCHANGED <<players, enemies, player, enemy, initiative_order, is_active>>
    /\ UNCHANGED CallersFrame

NextCallers ==
    \/ /\ starts = 0
       /\ start_combat
       /\ UNCHANGED <<registry, persistence>>
    \/ \E c \in CallerIds : BeginNextTurn(c)
    \/ \E c \in CallerIds : BeginPlayerAction(c)
    \/ \E c \in CallerIds : ResolveEntry(c)
    \/ \E c \in CallerIds : AdvancePointer(c)

SpecCallers == InitCallers /\ [][NextCallers]_vars

\* C39: calls into one encounter must be serialized: when they are, no turn
\* slot (round, position) is resolved twice and the pointer is advanced once
\* for it; when two next_turn or player_action calls interleave, a slot can
\* be resolved twice or the pointer advanced twice for it.
C39_SerializedResolvesOnce ==
    callers.serialized =>
        /\ ~callers.twice
        /\ Cardinality(UnderWay) <= 1
        /\ \A c \in UnderWay :
              /\ callers.slot[c] = <<round_number, current_turn>>
              /\ current_turn < Len(turn_order)
              /\ callers.current[c] = turn_order[current_turn + 1]

\* two calls that were not serialized have resolved the same slot twice
C39_Witness ==
    /\ ~callers.serialized
    /\ callers.twice
    /\ \E c \in CallerIds : callers.pc[c] = "resolved" /\ callers.slot[c] \in callers.resolved

\* a stale entry: a caller that was not serialized holds an entry that is no
\* longer the one at the pointer
C39_StaleEntryReached ==
    /\ ~callers.serialized
    /\ \E c \in UnderWay : callers.slot[c] # <<round_number, current_turn>>

====
